---- MODULE Spec2Model ----
(***************************************************************************)
(* A model of the snowflake proxy: the supervisor loop with its token      *)
(* pool and sessions (proxy/snowflake.go), one peer session in detail      *)
(* (proxy/lib/webrtcconn.go bridged by CopyLoop), and the IP-sighting sink *)
(* cluster (common/ipsetsink/sinkcluster).                                 *)
(*                                                                         *)
(* The specifications of the module:                                       *)
(*   Spec      the supervisor loop, runSession and datachannelHandler of   *)
(*             every session, with the bridge as one step;                 *)
(*   SpecConn  one session from OnDataChannel on, statement by statement:  *)
(*             webRTCConn (Write, Close, timeoutLoop), the data-channel    *)
(*             callbacks and CopyLoop; SpecConnFair adds the scheduler's   *)
(*             fairness;                                                   *)
(*   SpecSink  ClusterWriter: AddIPToSet and WriteIPSetToDisk.             *)
(*                                                                         *)
(*   SpecPoll  one call of pollOffer, iteration by iteration;              *)
(*   SpecSinkTest  the cluster used by one goroutine.                      *)
(*                                                                         *)
(* The sessions' clocks are counted in ticks of TickSeconds seconds, the   *)
(* clock of pollOffer in seconds.                                          *)
(***************************************************************************)
EXTENDS Integers, Sequences, FiniteSets, TLC

\* ---------------------------------------------------------------- bounds
\* The -capacity flag: the number of tokens main() fills the channel with.
Capacity == 2
\* Sessions the supervisor starts before the model stops it.
MaxSessions == 3

\* Goroutines that call into the sink cluster.
NCallers == 2
\* Distinct addresses sighted.
MaxIP == 1
\* Seconds the sink cluster's clock runs.
MaxNow == 2
\* Calls of AddIPToSet and WriteIPSetToDisk, together.
MaxCalls == 3
\* The writeInterval given to NewClusterWriter, in seconds.
writeInterval == 1

\* Messages the relay sends, and messages the peer sends, in one session.
MaxRelayMsgs == 1
MaxPeerMsgs == 1
\* Seconds in one tick of the session clocks.
TickSeconds == 10
\* Seconds the clock of pollOffer runs, and polls made by one pollOffer call.
MaxPollClock == 15
MaxPolls == 4

\* ------------------------------------------------------ program constants
\* const dataChannelTimeout = 20 * time.Second, in ticks
dataChannelTimeout == 20 \div TickSeconds
\* conn.inactivityTimeout = 30 * time.Second, in ticks
inactivityTimeout == 30 \div TickSeconds
\* const maxBufferedAmount uint64 = 512 * 1024
maxBufferedAmount == 512 * 1024
\* conn.activity = make(chan struct{}, 100)
activityCap == 100
\* The data channel's low-water mark, at which OnBufferedAmountLow is called.
bufferedAmountLowThreshold == 256 * 1024
\* The session that SpecConn follows.
TheSession == 1
\* const pollInterval = 5 * time.Second, in seconds
pollInterval == 5
\* The most media descriptions in a session description, the most
\* attributes in a media description, the most c= lines in its text.
MaxMedia == 2
MaxAttrs == 2
MaxCLines == 2

Sessions == 1 .. MaxSessions

VARIABLES
    \* --- supervisor and sessions (proxy/snowflake.go)
    tokens,        \* number of values in the tokens channel
    supPC,         \* main's loop: "getToken" or "runSession"
    nextSid,       \* the next session to start
    rs,            \* rs[s]: where runSession(s) stands
    rsExit,        \* rs[s] has returned: by which path
    pcState,       \* peer connection of s: "none", "open", "closed"
    pcCloses,      \* pcCloses[s]: calls of pc.Close()
    answerSent,    \* the answer of s has reached the broker
    dataChan,      \* dataChan of s: "open" or "closed"
    waited,        \* seconds runSession has spent in its select
    hd,            \* hd[s]: where datachannelHandler(conn of s) stands
    connOnce,      \* conn.once of s has run
    rets,          \* rets[s]: retToken() calls made for session s
    rsRets,        \* rsRets[s]: those made by runSession itself
    crashed,       \* the process has panicked
    \* --- the sink cluster (common/ipsetsink/sinkcluster)
    now,           \* time.Now()
    lastWriteTime, \* ClusterWriter.lastWriteTime
    current,       \* current[n]: the addresses in sink n's current set
    written,       \* written[n]: the entries appended to sink n's writer
    lock,          \* ClusterWriter.lock: its holder, or 0
    kpc,           \* kpc[c]: where caller c stands
    kargs,         \* kargs[c]: the name and address of c's AddIPToSet
    kflush,        \* kflush[c]: the locals of c's WriteIPSetToDisk
    kcount,        \* kcount[c]: what c's last WriteIPSetToDisk did
    dirty,         \* dirty[n]: an address was added to n since its Reset
    calls,         \* operations started so far
    \* --- one session in detail (proxy/lib/webrtcconn.go, CopyLoop)
    conn,          \* the webRTCConn: dc, lock, ctxDone, activity, sendMoreCh, timerLeft
    chan,          \* its data channel and pipe
    ws,            \* the relay's websocket connection
    gor,           \* where the copy tasks, Write and timeoutLoop stand
    obs,           \* what has been observed: calls counted, ages, the last Write
    \* --- one call of pollOffer in detail (proxy/snowflake.go)
    poll,          \* its locals, its clock and the polls it has started
    \* --- one call of RemoteAddr (proxy/snowflake.go, proxy/lib/webrtcconn.go)
    sdp            \* the remote description's text and the address found in it

supVars == <<tokens, supPC, nextSid, rs, rsExit, pcState, pcCloses, answerSent,
             dataChan, waited, hd, connOnce, rets, rsRets, crashed>>

sinkVars == <<now, lastWriteTime, current, written, lock, kpc, kargs, kflush,
              kcount, dirty, calls>>

connVars == <<conn, chan, ws, gor, obs>>

pollVars == <<poll>>

sdpVars == <<sdp>>

vars == <<supVars, sinkVars, connVars, pollVars, sdpVars>>

\* ======================================================================
\* The supervisor loop and its sessions (proxy/snowflake.go)
\* ======================================================================

\* tokens = make(chan bool, capacity); for i < capacity { tokens <- true }
InitSup ==
    /\ tokens = Capacity
    /\ supPC = "getToken"
    /\ nextSid = 1
    /\ rs = [s \in Sessions |-> "idle"]
    /\ rsExit = [s \in Sessions |-> "none"]
    /\ pcState = [s \in Sessions |-> "none"]
    /\ pcCloses = [s \in Sessions |-> 0]
    /\ answerSent = [s \in Sessions |-> FALSE]
    /\ dataChan = [s \in Sessions |-> "open"]
    /\ waited = 0
    /\ hd = [s \in Sessions |-> "none"]
    /\ connOnce = [s \in Sessions |-> FALSE]
    /\ rets = [s \in Sessions |-> 0]
    /\ rsRets = [s \in Sessions |-> 0]
    /\ crashed = FALSE

\* A step of the supervisor or of a session leaves the sink cluster and the
\* detailed session alone.
SupFrame == UNCHANGED <<sinkVars, connVars, pollVars, sdpVars>>

\* func getToken() { <-tokens }: blocks while the channel is empty.
getToken ==
    /\ tokens > 0
    /\ tokens' = tokens - 1

\* func retToken() { tokens <- true }: blocks while the channel is full.
retToken ==
    /\ tokens < Capacity
    /\ tokens' = tokens + 1

\* pc.Close() on the peer connection of s.
pcClose(s) ==
    /\ pcState' = [pcState EXCEPT ![s] = "closed"]
    /\ pcCloses' = [pcCloses EXCEPT ![s] = @ + 1]

\* main: for { getToken(); sessionID := genSessionID(); runSession(sessionID) }
SupGetToken ==
    /\ ~crashed
    /\ SupFrame
    /\ supPC = "getToken"
    /\ nextSid <= MaxSessions
    /\ getToken
    /\ supPC' = "runSession"
    /\ rs' = [rs EXCEPT ![nextSid] = "pollOffer"]
    /\ nextSid' = nextSid + 1
    /\ UNCHANGED <<rsExit, pcState, pcCloses, answerSent, dataChan, waited, hd,
                   connOnce, rets, rsRets, crashed>>

\* One iteration of pollOffer's loop. A transport error, a non-200 status, a
\* response-read error and an empty offer go round the loop again; a decode
\* failure returns nil; an offer is returned.
PollOutcomes == {"transportError", "badStatus", "readError", "emptyOffer",
                 "decodeError", "offer"}

pollOffer(s) ==
    /\ ~crashed
    /\ SupFrame
    /\ rs[s] = "pollOffer"
    /\ \E o \in PollOutcomes :
          rs' = [rs EXCEPT ![s] =
                    CASE o = "offer"       -> "NewPeerConnection"
                      [] o = "decodeError" -> "retBadOffer"
                      [] OTHER             -> "pollOffer"]
    /\ UNCHANGED <<tokens, supPC, nextSid, rsExit, pcState, pcCloses, answerSent,
                   dataChan, waited, hd, connOnce, rets, rsRets, crashed>>

\* makePeerConnectionFromOffer: webrtc.NewPeerConnection(config), then the
\* OnDataChannel callback is installed.
NewPeerConnection(s) ==
    /\ ~crashed
    /\ SupFrame
    /\ rs[s] = "NewPeerConnection"
    /\ \E ok \in BOOLEAN :
          IF ok
          THEN /\ pcState' = [pcState EXCEPT ![s] = "open"]
               /\ rs' = [rs EXCEPT ![s] = "SetRemoteDescription"]
          ELSE /\ rs' = [rs EXCEPT ![s] = "retPCError"]
               /\ UNCHANGED pcState
    /\ UNCHANGED <<tokens, supPC, nextSid, rsExit, pcCloses, answerSent,
                   dataChan, waited, hd, connOnce, rets, rsRets, crashed>>

\* makePeerConnectionFromOffer: SetRemoteDescription, CreateAnswer and
\* SetLocalDescription, in this order; each closes the peer connection and
\* returns the error when it fails.
NegotiationStep(s, here, next) ==
    /\ ~crashed
    /\ SupFrame
    /\ rs[s] = here
    /\ \E ok \in BOOLEAN :
          IF ok
          THEN /\ rs' = [rs EXCEPT ![s] = next]
               /\ UNCHANGED <<pcState, pcCloses>>
          ELSE /\ pcClose(s)
               /\ rs' = [rs EXCEPT ![s] = "retPCError"]
    /\ UNCHANGED <<tokens, supPC, nextSid, rsExit, answerSent,
                   dataChan, waited, hd, connOnce, rets, rsRets, crashed>>

\* A makePeerConnectionFromOffer that returns the peer connection once the
\* answer is created, leaving SetLocalDescription out.
CreateAnswerThenReturn(s) == NegotiationStep(s, "CreateAnswer", "sendAnswer")

SetRemoteDescription(s) == NegotiationStep(s, "SetRemoteDescription", "CreateAnswer")
CreateAnswer(s) == NegotiationStep(s, "CreateAnswer", "SetLocalDescription")
SetLocalDescription(s) == NegotiationStep(s, "SetLocalDescription", "sendAnswer")

\* sendAnswer up to b.transport.RoundTrip(req): the answer is encoded and
\* posted. An encoding error posts nothing; a transport error may come before
\* or after the broker has taken the answer (a response lost on the way back).
sendAnswerRoundTrip(s) ==
    /\ ~crashed
    /\ SupFrame
    /\ rs[s] = "sendAnswer"
    /\ \E o \in {"encodeError", "transportError", "response"}, reached \in BOOLEAN :
          /\ (o = "encodeError") => ~reached
          /\ (o = "response") => reached
          /\ answerSent' = [answerSent EXCEPT ![s] = reached]
          /\ rs' = [rs EXCEPT ![s] =
                       IF o = "response" THEN "sendAnswerResponse" ELSE "answerErrClose"]
    /\ UNCHANGED <<tokens, supPC, nextSid, rsExit, pcState, pcCloses,
                   dataChan, waited, hd, connOnce, rets, rsRets, crashed>>

\* sendAnswer after the round trip: a non-200 status, a response that cannot
\* be read or decoded and success=false are errors; success=true returns nil
\* and runSession enters its select, where time.After(dataChannelTimeout)
\* starts the deadline.
AnswerResponses == {"badStatus", "readError", "decodeError", "clientTimeout", "ok"}

sendAnswerResponse(s) ==
    /\ ~crashed
    /\ SupFrame
    /\ rs[s] = "sendAnswerResponse"
    /\ \E o \in AnswerResponses :
          rs' = [rs EXCEPT ![s] = IF o = "ok" THEN "select" ELSE "answerErrClose"]
    /\ waited' = 0
    /\ UNCHANGED <<tokens, supPC, nextSid, rsExit, pcState, pcCloses, answerSent,
                   dataChan, hd, connOnce, rets, rsRets, crashed>>

\* runSession, sendAnswer failed: pc.Close(), then retToken().
AnswerErrClose(s) ==
    /\ ~crashed
    /\ SupFrame
    /\ rs[s] = "answerErrClose"
    /\ pcClose(s)
    /\ rs' = [rs EXCEPT ![s] = "retAnswerError"]
    /\ UNCHANGED <<tokens, supPC, nextSid, rsExit, answerSent,
                   dataChan, waited, hd, connOnce, rets, rsRets, crashed>>

\* A second passes while runSession waits in its select.
TickSelect ==
    /\ ~crashed
    /\ SupFrame
    /\ \E s \in Sessions : rs[s] = "select"
    /\ waited < dataChannelTimeout
    /\ waited' = waited + 1
    /\ UNCHANGED <<tokens, supPC, nextSid, rs, rsExit, pcState, pcCloses, answerSent,
                   dataChan, hd, connOnce, rets, rsRets, crashed>>

\* select { case <-dataChan: log "Connection successful." }: runSession
\* returns, and main goes back to getToken.
SelectDataChan(s) ==
    /\ ~crashed
    /\ SupFrame
    /\ rs[s] = "select"
    /\ dataChan[s] = "closed"
    /\ rs' = [rs EXCEPT ![s] = "returned"]
    /\ rsExit' = [rsExit EXCEPT ![s] = "dataChan"]
    /\ supPC' = "getToken"
    /\ waited' = 0
    /\ UNCHANGED <<tokens, nextSid, pcState, pcCloses, answerSent,
                   dataChan, hd, connOnce, rets, rsRets, crashed>>

\* select { case <-time.After(dataChannelTimeout): }: the timer wakes the
\* select when dataChan has not been closed before.
SelectTimeout(s) ==
    /\ ~crashed
    /\ SupFrame
    /\ rs[s] = "select"
    /\ dataChan[s] = "open"
    /\ waited = dataChannelTimeout
    /\ rs' = [rs EXCEPT ![s] = "timeoutClose"]
    /\ waited' = 0
    /\ UNCHANGED <<tokens, supPC, nextSid, rsExit, pcState, pcCloses, answerSent,
                   dataChan, hd, connOnce, rets, rsRets, crashed>>

\* The timeout branch: pc.Close(), then retToken().
TimeoutClose(s) ==
    /\ ~crashed
    /\ SupFrame
    /\ rs[s] = "timeoutClose"
    /\ pcClose(s)
    /\ rs' = [rs EXCEPT ![s] = "retTimeout"]
    /\ UNCHANGED <<tokens, supPC, nextSid, rsExit, answerSent,
                   dataChan, waited, hd, connOnce, rets, rsRets, crashed>>

\* The retToken() of runSession's four early exits, and the return to main.
RetPaths == {"retBadOffer", "retPCError", "retAnswerError", "retTimeout"}

ExitOf(path) ==
    CASE path = "retBadOffer"    -> "badOffer"
      [] path = "retPCError"     -> "pcError"
      [] path = "retAnswerError" -> "answerError"
      [] path = "retTimeout"     -> "timeout"

runSessionRetToken(s) ==
    /\ ~crashed
    /\ SupFrame
    /\ rs[s] \in RetPaths
    /\ retToken
    /\ rets' = [rets EXCEPT ![s] = @ + 1]
    /\ rsRets' = [rsRets EXCEPT ![s] = @ + 1]
    /\ rsExit' = [rsExit EXCEPT ![s] = ExitOf(rs[s])]
    /\ rs' = [rs EXCEPT ![s] = "returned"]
    /\ supPC' = "getToken"
    /\ UNCHANGED <<nextSid, pcState, pcCloses, answerSent,
                   dataChan, waited, hd, connOnce, crashed>>

\* pc.OnDataChannel(func(dc)): the peer, holding the answer, opens a data
\* channel on a peer connection that is not closed. close(dataChan) panics
\* when the channel is closed already (a second data channel); otherwise the
\* session object is built and datachannelHandler is started on its own
\* goroutine.
OnDataChannel(s) ==
    /\ ~crashed
    /\ SupFrame
    /\ pcState[s] = "open"
    /\ answerSent[s]
    /\ IF dataChan[s] = "closed"
       THEN /\ crashed' = TRUE
            /\ UNCHANGED <<dataChan, hd>>
       ELSE /\ dataChan' = [dataChan EXCEPT ![s] = "closed"]
            /\ hd' = [hd EXCEPT ![s] = "Dial"]
            /\ UNCHANGED crashed
    /\ UNCHANGED <<tokens, supPC, nextSid, rs, rsExit, pcState, pcCloses, answerSent,
                   waited, connOnce, rets, rsRets>>

\* webRTCConn.Close (proxy/snowflake.go): c.once.Do(func() { err = c.pc.Close() })
connClose(s) ==
    IF connOnce[s]
    THEN UNCHANGED <<connOnce, pcState, pcCloses>>
    ELSE /\ connOnce' = [connOnce EXCEPT ![s] = TRUE]
         /\ pcClose(s)

\* datachannelHandler: websocket.DefaultDialer.Dial(relay). On an error the
\* handler returns and its deferred calls run: retToken(), then conn.Close().
Dial(s) ==
    /\ ~crashed
    /\ SupFrame
    /\ hd[s] = "Dial"
    /\ \E ok \in BOOLEAN :
          hd' = [hd EXCEPT ![s] = IF ok THEN "CopyLoop" ELSE "retToken"]
    /\ UNCHANGED <<tokens, supPC, nextSid, rs, rsExit, pcState, pcCloses, answerSent,
                   dataChan, waited, connOnce, rets, rsRets, crashed>>

\* datachannelHandler: CopyLoop(conn, wsConn) from its start to its return.
\* Each copy direction closes both endpoints when it ends, so conn.Close()
\* has run when CopyLoop returns; the deferred wsConn.Close() follows.
HandlerCopyLoop(s) ==
    /\ ~crashed
    /\ SupFrame
    /\ hd[s] = "CopyLoop"
    /\ connClose(s)
    /\ hd' = [hd EXCEPT ![s] = "retToken"]
    /\ UNCHANGED <<tokens, supPC, nextSid, rs, rsExit, answerSent,
                   dataChan, waited, rets, rsRets, crashed>>

\* datachannelHandler: defer retToken()
HandlerRetToken(s) ==
    /\ ~crashed
    /\ SupFrame
    /\ hd[s] = "retToken"
    /\ retToken
    /\ rets' = [rets EXCEPT ![s] = @ + 1]
    /\ hd' = [hd EXCEPT ![s] = "connClose"]
    /\ UNCHANGED <<supPC, nextSid, rs, rsExit, pcState, pcCloses, answerSent,
                   dataChan, waited, connOnce, rsRets, crashed>>

\* datachannelHandler: defer conn.Close(), the last deferred call to run.
HandlerConnClose(s) ==
    /\ ~crashed
    /\ SupFrame
    /\ hd[s] = "connClose"
    /\ connClose(s)
    /\ hd' = [hd EXCEPT ![s] = "done"]
    /\ UNCHANGED <<tokens, supPC, nextSid, rs, rsExit, answerSent,
                   dataChan, waited, rets, rsRets, crashed>>

\* ======================================================================
\* The sink cluster (common/ipsetsink/sinkcluster)
\* ======================================================================

\* The names of the writers map given to NewClusterWriter.
SinkNames == {"a", "b"}
\* A name that is not a key of the writers map.
UnregisteredNames == {"z"}
\* The goroutines calling into the cluster.
Callers == 1 .. NCallers
\* The addresses sighted.
IPs == 1 .. MaxIP

NoFlush == [time |-> 0, todo |-> {}, sink |-> "", inAdd |-> FALSE, synced |-> FALSE]
NoCount == [result |-> "none", wrote |-> [n \in SinkNames |-> 0],
            resets |-> [n \in SinkNames |-> 0], lwt |-> 0]

\* NewClusterWriter: one sink with an empty set per writer, lastWriteTime =
\* time.Now(), the lock free.
InitSink ==
    /\ now = 0
    /\ lastWriteTime = 0
    /\ current = [n \in SinkNames |-> {}]
    /\ written = [n \in SinkNames |-> <<>>]
    /\ lock = 0
    /\ kpc = [c \in Callers |-> "idle"]
    /\ kargs = [c \in Callers |-> [name |-> "a", ip |-> 1, fresh |-> FALSE]]
    /\ kflush = [c \in Callers |-> NoFlush]
    /\ kcount = [c \in Callers |-> NoCount]
    /\ dirty = [n \in SinkNames |-> FALSE]
    /\ calls = 0

\* A step of the cluster leaves the proxy alone.
SinkFrame == UNCHANGED <<supVars, connVars, pollVars, sdpVars>>

\* The probabilistic set, as the cluster uses it: AddIPToSet, Dump, Reset.
\* Dump is a function of the addresses added since the last Reset.
IPSetAdd(set, ip) == set \cup {ip}
IPSetDump(set) == set
IPSetReset(set) == {}

\* &SinkEntry{RecordingStart: c.lastWriteTime, RecordingEnd: currentTime,
\*            Recorded: data}, marshalled, with one '\n' appended.
SinkEntry(start, end, data) ==
    [RecordingStart |-> start, RecordingEnd |-> end, Recorded |-> data, newlines |-> 1]

\* A second passes.
TickSink ==
    /\ now < MaxNow
    /\ now' = now + 1
    /\ SinkFrame
    /\ UNCHANGED <<lastWriteTime, current, written, lock, kpc, kargs, kflush,
                   kcount, dirty, calls>>

\* A goroutine calls clusterWriter.WriteIPSetToDisk() itself (the caller takes
\* no lock): currentTime := time.Now(), and the range over c.sinks begins.
FlushBegin(c, inAdd) ==
    /\ kflush' = [kflush EXCEPT ![c] =
                     [time |-> now, todo |-> SinkNames, sink |-> "", inAdd |-> inAdd,
                      synced |-> FALSE]]
    /\ kcount' = [kcount EXCEPT ![c] = NoCount]
    /\ kpc' = [kpc EXCEPT ![c] = "flushLoop"]

CallWriteIPSetToDisk(c) ==
    /\ kpc[c] = "idle"
    /\ calls < MaxCalls
    /\ calls' = calls + 1
    /\ FlushBegin(c, FALSE)
    /\ SinkFrame
    /\ UNCHANGED <<now, lastWriteTime, current, written, lock, kargs, dirty>>

\* Where WriteIPSetToDisk returns to: AddIPToSet's insert, or its caller.
FlushReturn(c) == IF kflush[c].inAdd THEN "addInsert" ELSE "flushReturned"

\* WriteIPSetToDisk, one sink of the range (a map: any order): Dump, marshal,
\* append '\n', io.Copy to the writer, Sync. A failing Dump, Marshal or Copy
\* logs and returns from WriteIPSetToDisk; the result of Sync is dropped
\* (kflush[c].synced notes it).
FlushOutcomes == {"ok", "dumpError", "marshalError", "writeError"}

FlushWriteSink(c) ==
    /\ kpc[c] = "flushLoop"
    /\ kflush[c].todo # {}
    /\ \E n \in kflush[c].todo, o \in FlushOutcomes, synced \in BOOLEAN :
          IF o = "ok"
          THEN /\ written' = [written EXCEPT ![n] =
                     Append(@, SinkEntry(lastWriteTime, kflush[c].time,
                                         IPSetDump(current[n])))]
               /\ kflush' = [kflush EXCEPT ![c].sink = n, ![c].synced = synced]
               /\ kcount' = [kcount EXCEPT ![c].wrote[n] = @ + 1]
               /\ kpc' = [kpc EXCEPT ![c] = "flushReset"]
          ELSE /\ kcount' = [kcount EXCEPT ![c].result = "failed"]
               /\ kpc' = [kpc EXCEPT ![c] = FlushReturn(c)]
               /\ UNCHANGED <<written, kflush>>
    /\ SinkFrame
    /\ UNCHANGED <<now, lastWriteTime, current, lock, kargs, dirty, calls>>

\* WriteIPSetToDisk without its sink.current.Reset(): the range goes on to the
\* next sink with the set as it was.
FlushResetSinkSkipped(c) ==
    /\ kpc[c] = "flushReset"
    /\ kflush' = [kflush EXCEPT ![c].todo = @ \ {kflush[c].sink}]
    /\ kpc' = [kpc EXCEPT ![c] = "flushLoop"]
    /\ SinkFrame
    /\ UNCHANGED <<now, lastWriteTime, current, written, lock, kargs, kcount, dirty, calls>>

\* WriteIPSetToDisk: sink.current.Reset(), the last statement of the range body.
FlushResetSink(c) ==
    /\ kpc[c] = "flushReset"
    /\ LET n == kflush[c].sink IN
          /\ current' = [current EXCEPT ![n] = IPSetReset(@)]
          /\ dirty' = [dirty EXCEPT ![n] = FALSE]
          /\ kcount' = [kcount EXCEPT ![c].resets[n] = @ + 1]
          /\ kflush' = [kflush EXCEPT ![c].todo = @ \ {n}]
    /\ kpc' = [kpc EXCEPT ![c] = "flushLoop"]
    /\ SinkFrame
    /\ UNCHANGED <<now, lastWriteTime, written, lock, kargs, calls>>

\* WriteIPSetToDisk, after the range: c.lastWriteTime = currentTime.
FlushSetLastWriteTime(c) ==
    /\ kpc[c] = "flushLoop"
    /\ kflush[c].todo = {}
    /\ lastWriteTime' = kflush[c].time
    /\ kcount' = [kcount EXCEPT ![c].lwt = @ + 1, ![c].result = "ok"]
    /\ kpc' = [kpc EXCEPT ![c] = FlushReturn(c)]
    /\ SinkFrame
    /\ UNCHANGED <<now, current, written, lock, kargs, kflush, dirty, calls>>

\* The direct caller of WriteIPSetToDisk goes on.
FlushReturned(c) ==
    /\ kpc[c] = "flushReturned"
    /\ kpc' = [kpc EXCEPT ![c] = "idle"]
    /\ SinkFrame
    /\ UNCHANGED <<now, lastWriteTime, current, written, lock, kargs, kflush,
                   kcount, dirty, calls>>

\* A goroutine calls AddIPToSet(name, ipAddress) with a registered name.
CallAddIPToSet(c) ==
    /\ kpc[c] = "idle"
    /\ calls < MaxCalls
    /\ calls' = calls + 1
    /\ \E n \in SinkNames, ip \in IPs :
          kargs' = [kargs EXCEPT ![c] = [name |-> n, ip |-> ip, fresh |-> FALSE]]
    /\ kpc' = [kpc EXCEPT ![c] = "addLock"]
    /\ SinkFrame
    /\ UNCHANGED <<now, lastWriteTime, current, written, lock, kflush, kcount, dirty>>

\* A goroutine calls AddIPToSet(name, ipAddress) with a name that
\* NewClusterWriter was not given.
CallAddIPToSetUnregistered(c) ==
    /\ kpc[c] = "idle"
    /\ calls < MaxCalls
    /\ calls' = calls + 1
    /\ \E n \in UnregisteredNames, ip \in IPs :
          kargs' = [kargs EXCEPT ![c] = [name |-> n, ip |-> ip, fresh |-> FALSE]]
    /\ kpc' = [kpc EXCEPT ![c] = "addLock"]
    /\ SinkFrame
    /\ UNCHANGED <<now, lastWriteTime, current, written, lock, kflush, kcount, dirty>>

\* An AddIPToSet that inserts the address before it looks at the time.
AddLockInsertFirst(c) ==
    /\ kpc[c] = "addLock"
    /\ lock = 0
    /\ lock' = c
    /\ kargs' = [kargs EXCEPT ![c].fresh = kargs[c].ip \notin current[kargs[c].name]]
    /\ current' = [current EXCEPT ![kargs[c].name] = IPSetAdd(@, kargs[c].ip)]
    /\ dirty' = [dirty EXCEPT ![kargs[c].name] = TRUE]
    /\ IF lastWriteTime + writeInterval < now
       THEN FlushBegin(c, TRUE)
       ELSE /\ kpc' = [kpc EXCEPT ![c] = "addInsert"]
            /\ kcount' = [kcount EXCEPT ![c] = NoCount]
            /\ UNCHANGED kflush
    /\ SinkFrame
    /\ UNCHANGED <<now, lastWriteTime, written, calls>>

\* AddIPToSet: c.lock.Lock(), then
\* if c.lastWriteTime.Add(c.writeInterval).Before(time.Now()) { c.WriteIPSetToDisk() }
\* kargs[c].fresh notes whether the address is new to the named sink.
AddLockAndCheck(c) ==
    /\ kpc[c] = "addLock"
    /\ lock = 0
    /\ lock' = c
    /\ kargs' = [kargs EXCEPT ![c].fresh =
                     /\ kargs[c].name \in SinkNames
                     /\ kargs[c].ip \notin current[kargs[c].name]]
    /\ IF lastWriteTime + writeInterval < now
       THEN FlushBegin(c, TRUE)
       ELSE /\ kpc' = [kpc EXCEPT ![c] = "addInsert"]
            /\ kcount' = [kcount EXCEPT ![c] = NoCount]
            /\ UNCHANGED kflush
    /\ SinkFrame
    /\ UNCHANGED <<now, lastWriteTime, current, written, dirty, calls>>

\* An AddIPToSet that returns without handing the address to the sink.
AddInsertDropped(c) ==
    /\ kpc[c] = "addInsert"
    /\ dirty' = [dirty EXCEPT ![kargs[c].name] = TRUE]
    /\ lock' = 0
    /\ kpc' = [kpc EXCEPT ![c] = "idle"]
    /\ SinkFrame
    /\ UNCHANGED <<now, lastWriteTime, current, written, kargs, kflush, kcount,
                   calls>>

\* An AddIPToSet whose c.lock.Unlock() is the last statement instead of a
\* deferred call: the fault on a missing name leaves the lock held.
AddInsertUnlockNotDeferred(c) ==
    /\ kpc[c] = "addInsert"
    /\ IF kargs[c].name \in SinkNames
       THEN /\ current' = [current EXCEPT ![kargs[c].name] = IPSetAdd(@, kargs[c].ip)]
            /\ dirty' = [dirty EXCEPT ![kargs[c].name] = TRUE]
            /\ lock' = 0
            /\ kpc' = [kpc EXCEPT ![c] = "idle"]
       ELSE /\ kpc' = [kpc EXCEPT ![c] = "faulted"]
            /\ UNCHANGED <<current, dirty, lock>>
    /\ SinkFrame
    /\ UNCHANGED <<now, lastWriteTime, written, kargs, kflush, kcount, calls>>

\* AddIPToSet: c.sinks[name].current.AddIPToSet(ipAddress), and the deferred
\* c.lock.Unlock(). For a name that is no key of c.sinks the map yields a nil
\* *sink and selecting .current is a nil pointer dereference: the call
\* panics, and the deferred Unlock runs while the panic unwinds.
AddInsert(c) ==
    /\ kpc[c] = "addInsert"
    /\ IF kargs[c].name \in SinkNames
       THEN /\ current' = [current EXCEPT ![kargs[c].name] = IPSetAdd(@, kargs[c].ip)]
            /\ dirty' = [dirty EXCEPT ![kargs[c].name] = TRUE]
            /\ kpc' = [kpc EXCEPT ![c] = "idle"]
       ELSE /\ kpc' = [kpc EXCEPT ![c] = "faulted"]
            /\ UNCHANGED <<current, dirty>>
    /\ lock' = 0
    /\ SinkFrame
    /\ UNCHANGED <<now, lastWriteTime, written, kargs, kflush, kcount, calls>>

\* ======================================================================
\* One session in detail: webRTCConn (proxy/lib/webrtcconn.go) bridged to
\* the relay by CopyLoop (proxy/snowflake.go)
\* ======================================================================

\* Lengths of the buffers handed to Write.
MsgLens == {256 * 1024, 512 * 1024}
\* Bytes the data channel puts on the wire in one step.
DrainChunk == 256 * 1024

\* No Write has been made yet.
NoWrite == [len |-> 0, n |-> 0, err |-> "none", afterOnClose |-> FALSE,
            sent |-> FALSE, high |-> FALSE, waited |-> FALSE,
            dropped |-> FALSE]

\* Before OnDataChannel there is no webRTCConn.
InitNoConn ==
    /\ conn = [dc |-> FALSE, lock |-> "free", ctxDone |-> FALSE,
               activity |-> 0, sendMoreCh |-> 0, timerLeft |-> 0]
    /\ chan = [dcOpen |-> FALSE, buffered |-> 0, pwClosed |-> FALSE,
               prClosed |-> FALSE, pipeBuf |-> 0, onClose |-> "idle",
               peerLeft |-> 0]
    /\ ws = [closed |-> FALSE, relayClosed |-> FALSE, relayLeft |-> 0]
    /\ gor = [up |-> "idle", down |-> "idle", wd |-> "none", wlen |-> 0]
    /\ obs = [closeCalls |-> 0, prCloses |-> 0, cancels |-> 0,
              writeAge |-> 0, recvAge |-> 0, inTime |-> FALSE,
              cur |-> NoWrite,
              last |-> NoWrite]

\* newWebRTCConn: the state OnDataChannel leaves behind for TheSession.  The
\* activity and sendMoreCh channels are empty, the timeoutLoop goroutine runs
\* with its timer set to inactivityTimeout, and datachannelHandler starts.
newWebRTCConn ==
    /\ conn = [dc |-> TRUE, lock |-> "free", ctxDone |-> FALSE,
               activity |-> 0, sendMoreCh |-> 0,
               timerLeft |-> inactivityTimeout]
    /\ chan = [dcOpen |-> TRUE, buffered |-> 0, pwClosed |-> FALSE,
               prClosed |-> FALSE, pipeBuf |-> 0, onClose |-> "idle",
               peerLeft |-> MaxPeerMsgs]
    /\ ws = [closed |-> FALSE, relayClosed |-> FALSE,
             relayLeft |-> MaxRelayMsgs]
    /\ gor = [up |-> "idle", down |-> "idle", wd |-> "select", wlen |-> 0]
    /\ obs = [closeCalls |-> 0, prCloses |-> 0, cancels |-> 0,
              writeAge |-> 0, recvAge |-> 0, inTime |-> FALSE,
              cur |-> NoWrite,
              last |-> NoWrite]

\* The signals that wait in c.activity when Write has been called that many
\* times and timeoutLoop has yet to take one: one short of the channel's
\* capacity, and the capacity.
ActivityBacklog == {activityCap - 1, activityCap}

\* The webRTCConn with such a backlog, no time having passed.
newWebRTCConnBacklog ==
    /\ \E k \in ActivityBacklog :
          conn = [dc |-> TRUE, lock |-> "free", ctxDone |-> FALSE,
                  activity |-> k, sendMoreCh |-> 0,
                  timerLeft |-> inactivityTimeout]
    /\ chan = [dcOpen |-> TRUE, buffered |-> 0, pwClosed |-> FALSE,
               prClosed |-> FALSE, pipeBuf |-> 0, onClose |-> "idle",
               peerLeft |-> MaxPeerMsgs]
    /\ ws = [closed |-> FALSE, relayClosed |-> FALSE,
             relayLeft |-> MaxRelayMsgs]
    /\ gor = [up |-> "idle", down |-> "idle", wd |-> "select", wlen |-> 0]
    /\ obs = [closeCalls |-> 0, prCloses |-> 0, cancels |-> 0,
              writeAge |-> 0, recvAge |-> 0, inTime |-> FALSE,
              cur |-> NoWrite,
              last |-> NoWrite]

\* The supervisor as OnDataChannel(TheSession) and runSession's select leave
\* it: the session holds one token, runSession has returned without giving it
\* back, and the handler is about to dial the relay.
InitSupBridge ==
    /\ tokens = Capacity - 1
    /\ supPC = "getToken"
    /\ nextSid = TheSession + 1
    /\ rs = [s \in Sessions |-> IF s = TheSession THEN "returned" ELSE "idle"]
    /\ rsExit = [s \in Sessions |->
                    IF s = TheSession THEN "dataChan" ELSE "none"]
    /\ pcState = [s \in Sessions |->
                    IF s = TheSession THEN "open" ELSE "none"]
    /\ pcCloses = [s \in Sessions |-> 0]
    /\ answerSent = [s \in Sessions |-> s = TheSession]
    /\ dataChan = [s \in Sessions |->
                    IF s = TheSession THEN "closed" ELSE "open"]
    /\ waited = 0
    /\ hd = [s \in Sessions |-> IF s = TheSession THEN "Dial" ELSE "none"]
    /\ connOnce = [s \in Sessions |-> FALSE]
    /\ rets = [s \in Sessions |-> 0]
    /\ rsRets = [s \in Sessions |-> 0]
    /\ crashed = FALSE

\* What a step of the detailed session leaves alone: the sink cluster and the
\* supervisor's own position.
supIdle == <<supPC, nextSid, rs, rsExit, answerSent, dataChan, waited, rsRets>>
ConnFrame == UNCHANGED <<sinkVars, supIdle, pollVars, sdpVars>>

\* ------------------------------------------------------------ webRTCConn

\* What pc.Close() does to the data channel: it closes with the connection,
\* and the channel's OnClose callback becomes due.
pcCloseDataChannel ==
    chan' = [chan EXCEPT !.prClosed = TRUE,
                         !.dcOpen = FALSE,
                         !.onClose = IF chan.dcOpen /\ @ = "idle"
                                     THEN "pending" ELSE @]

\* Close with the once.Do guard taken away: every call runs the body.
libCloseUnguarded ==
    /\ obs' = [obs EXCEPT !.closeCalls = @ + 1,
                          !.cancels = @ + 1,
                          !.prCloses = @ + 1]
    /\ connOnce' = [connOnce EXCEPT ![TheSession] = TRUE]
    /\ pcClose(TheSession)
    /\ conn' = [conn EXCEPT !.ctxDone = TRUE]
    /\ pcCloseDataChannel

\* func (c *webRTCConn) Close(): c.once.Do(func() { c.cancelTimeoutLoop();
\* err = errors.Join(c.pr.Close(), c.pc.Close()) })
libClose ==
    IF connOnce[TheSession]
    THEN /\ obs' = [obs EXCEPT !.closeCalls = @ + 1]
         /\ UNCHANGED <<connOnce, pcState, pcCloses, conn, chan>>
    ELSE /\ obs' = [obs EXCEPT !.closeCalls = @ + 1,
                               !.cancels = @ + 1,
                               !.prCloses = @ + 1]
         /\ connOnce' = [connOnce EXCEPT ![TheSession] = TRUE]
         /\ pcClose(TheSession)
         /\ conn' = [conn EXCEPT !.ctxDone = TRUE]
         /\ pcCloseDataChannel

\* One tick of the clock while timeoutLoop runs: its timer comes one tick
\* nearer to expiry, and the last Write and the last timer reset are one
\* tick older.
TickConn ==
    /\ ~crashed
    /\ ConnFrame
    /\ gor.wd = "select"
    /\ conn' = [conn EXCEPT !.timerLeft = IF @ > 0 THEN @ - 1 ELSE 0]
    /\ obs' = [obs EXCEPT
                 !.writeAge = IF @ < inactivityTimeout THEN @ + 1 ELSE @,
                 !.recvAge = IF @ < inactivityTimeout THEN @ + 1 ELSE @]
    /\ UNCHANGED <<tokens, pcState, pcCloses, hd, connOnce, rets, crashed,
                   chan, ws, gor>>

\* timeoutLoop: case <-timer.C: _ = c.Close(); return
timeoutLoopTimer ==
    /\ ~crashed
    /\ ConnFrame
    /\ gor.wd = "select"
    /\ conn.timerLeft = 0
    /\ libClose
    /\ gor' = [gor EXCEPT !.wd = "closed"]
    /\ UNCHANGED <<tokens, hd, rets, crashed, ws>>

\* The activity branch without its timer.Reset.
timeoutLoopActivityNoReset ==
    /\ ~crashed
    /\ ConnFrame
    /\ gor.wd = "select"
    /\ conn.activity > 0
    /\ conn' = [conn EXCEPT !.activity = @ - 1]
    /\ UNCHANGED obs
    /\ UNCHANGED <<tokens, pcState, pcCloses, hd, connOnce, rets, crashed,
                   chan, ws, gor>>

\* timeoutLoop: case <-c.activity: the timer is stopped, drained if it had
\* already expired, and reset to inactivityTimeout.
timeoutLoopActivity ==
    /\ ~crashed
    /\ ConnFrame
    /\ gor.wd = "select"
    /\ conn.activity > 0
    /\ conn' = [conn EXCEPT !.activity = @ - 1,
                            !.timerLeft = inactivityTimeout]
    /\ obs' = [obs EXCEPT !.recvAge = 0]
    /\ UNCHANGED <<tokens, pcState, pcCloses, hd, connOnce, rets, crashed,
                   chan, ws, gor>>

\* timeoutLoop: case <-ctx.Done(): return. The loop's timer goes with it, and
\* the ages that the clock kept are of no further use.
timeoutLoopDone ==
    /\ ~crashed
    /\ ConnFrame
    /\ gor.wd = "select"
    /\ conn.ctxDone
    /\ gor' = [gor EXCEPT !.wd = "cancelled"]
    /\ conn' = [conn EXCEPT !.timerLeft = 0]
    /\ obs' = [obs EXCEPT !.writeAge = 0, !.recvAge = 0, !.inTime = FALSE]
    /\ UNCHANGED <<tokens, pcState, pcCloses, hd, connOnce, rets, crashed,
                   chan, ws>>

\* A Write whose send on c.activity is a plain send, c.activity <- struct{}{},
\* which waits while the channel is full.
WriteActivityBlocking ==
    /\ ~crashed
    /\ ConnFrame
    /\ gor.up = "Write"
    /\ conn.activity < activityCap
    /\ conn' = [conn EXCEPT !.activity = @ + 1]
    /\ obs' = [obs EXCEPT !.writeAge = 0,
                          !.inTime = (gor.wd = "select" /\ conn.timerLeft > 0),
                          !.cur = [NoWrite EXCEPT
                                     !.len = gor.wlen,
                                     !.afterOnClose = (chan.onClose = "done")]]
    /\ gor' = [gor EXCEPT !.up = "writeLock"]
    /\ UNCHANGED <<tokens, pcState, pcCloses, hd, connOnce, rets, crashed,
                   chan, ws>>

\* Write: the non-blocking send on c.activity. A full channel drops the
\* signal (the default branch).
WriteActivity ==
    /\ ~crashed
    /\ ConnFrame
    /\ gor.up = "Write"
    /\ conn' = [conn EXCEPT !.activity = IF @ < activityCap THEN @ + 1 ELSE @]
    /\ obs' = [obs EXCEPT !.writeAge = 0,
                          !.inTime = (gor.wd = "select" /\ conn.timerLeft > 0),
                          !.cur = [NoWrite EXCEPT
                                     !.len = gor.wlen,
                                     !.afterOnClose = (chan.onClose = "done"),
                                     !.dropped = (conn.activity >= activityCap)]]
    /\ gor' = [gor EXCEPT !.up = "writeLock"]
    /\ UNCHANGED <<tokens, pcState, pcCloses, hd, connOnce, rets, crashed,
                   chan, ws>>

\* Write: c.lock.Lock()
WriteLock ==
    /\ ~crashed
    /\ ConnFrame
    /\ gor.up = "writeLock"
    /\ conn.lock = "free"
    /\ conn' = [conn EXCEPT !.lock = "Write"]
    /\ gor' = [gor EXCEPT !.up = "writeSend"]
    /\ UNCHANGED <<tokens, pcState, pcCloses, hd, connOnce, rets, crashed,
                   chan, ws, obs>>

\* Write: if c.dc != nil { _ = c.dc.Send(b) ... }. Send queues b on an open
\* channel; its error on a closed one is dropped.
WriteSend ==
    /\ ~crashed
    /\ ConnFrame
    /\ gor.up = "writeSend"
    /\ IF conn.dc
       THEN /\ chan' = [chan EXCEPT !.buffered =
                          IF chan.dcOpen THEN @ + gor.wlen ELSE @]
            /\ obs' = [obs EXCEPT !.cur.sent = TRUE]
            /\ gor' = [gor EXCEPT !.up = "writeCheck"]
       ELSE /\ gor' = [gor EXCEPT !.up = "writeReturn"]
            /\ UNCHANGED <<chan, obs>>
    /\ UNCHANGED <<tokens, pcState, pcCloses, hd, connOnce, rets, crashed,
                   conn, ws>>

\* A Write that does not look at the buffered amount.
WriteCheckNoWait ==
    /\ ~crashed
    /\ ConnFrame
    /\ gor.up = "writeCheck"
    /\ obs' = [obs EXCEPT !.cur.high = chan.buffered >= maxBufferedAmount]
    /\ gor' = [gor EXCEPT !.up = "writeReturn"]
    /\ UNCHANGED <<tokens, pcState, pcCloses, hd, connOnce, rets, crashed,
                   conn, chan, ws>>

\* Write: if c.dc.BufferedAmount() >= maxBufferedAmount
WriteCheck ==
    /\ ~crashed
    /\ ConnFrame
    /\ gor.up = "writeCheck"
    /\ IF chan.buffered >= maxBufferedAmount
       THEN /\ obs' = [obs EXCEPT !.cur.high = TRUE]
            /\ gor' = [gor EXCEPT !.up = "writeWait"]
       ELSE /\ gor' = [gor EXCEPT !.up = "writeReturn"]
            /\ UNCHANGED obs
    /\ UNCHANGED <<tokens, pcState, pcCloses, hd, connOnce, rets, crashed,
                   conn, chan, ws>>

\* Write: <-c.sendMoreCh
WriteWait ==
    /\ ~crashed
    /\ ConnFrame
    /\ gor.up = "writeWait"
    /\ conn.sendMoreCh > 0
    /\ conn' = [conn EXCEPT !.sendMoreCh = @ - 1]
    /\ obs' = [obs EXCEPT !.cur.waited = TRUE]
    /\ gor' = [gor EXCEPT !.up = "writeReturn"]
    /\ UNCHANGED <<tokens, pcState, pcCloses, hd, connOnce, rets, crashed,
                   chan, ws>>

\* What Write returns for a buffer of length len: (len(b), nil).
WriteResult(len) == [n |-> len, err |-> "nil"]

\* Write: return len(b), nil, and the deferred c.lock.Unlock().
WriteReturn ==
    /\ ~crashed
    /\ ConnFrame
    /\ gor.up = "writeReturn"
    /\ conn' = [conn EXCEPT !.lock = "free"]
    /\ obs' = [obs EXCEPT !.last = [obs.cur EXCEPT
                                      !.n = WriteResult(gor.wlen).n,
                                      !.err = WriteResult(gor.wlen).err],
                          !.cur = NoWrite]
    /\ gor' = [gor EXCEPT !.up = "read", !.wlen = 0]
    /\ UNCHANGED <<tokens, pcState, pcCloses, hd, connOnce, rets, crashed,
                   chan, ws>>

\* ------------------------------------------- data channel and its callbacks

\* The peer sends a message: the channel calls OnMessage, which starts
\* pw.Write(msg.Data). A write on the pipe blocks until the data is read or
\* the pipe is closed.
OnMessage ==
    /\ ~crashed
    /\ ConnFrame
    /\ chan.dcOpen
    /\ chan.peerLeft > 0
    /\ chan.pipeBuf = 0
    /\ chan' = [chan EXCEPT !.peerLeft = @ - 1, !.pipeBuf = 1]
    /\ UNCHANGED <<tokens, pcState, pcCloses, hd, connOnce, rets, crashed,
                   conn, ws, gor, obs>>

\* OnMessage: the pipe is closed under the blocked pw.Write, which returns
\* n = 0 and io.ErrClosedPipe; the handler calls pw.CloseWithError and falls
\* through to n != len(msg.Data): panic("short write").
OnMessageShortWrite ==
    /\ ~crashed
    /\ ConnFrame
    /\ chan.pipeBuf > 0
    /\ chan.prClosed \/ chan.pwClosed
    /\ crashed' = TRUE
    /\ UNCHANGED <<tokens, pcState, pcCloses, hd, connOnce, rets,
                   conn, chan, ws, gor, obs>>

\* The peer closes the data channel; OnClose becomes due.
PeerClose ==
    /\ ~crashed
    /\ ConnFrame
    /\ chan.dcOpen
    /\ chan' = [chan EXCEPT !.dcOpen = FALSE,
                            !.onClose = IF @ = "idle" THEN "pending" ELSE @]
    /\ UNCHANGED <<tokens, pcState, pcCloses, hd, connOnce, rets, crashed,
                   conn, ws, gor, obs>>

\* An OnClose that leaves conn.dc set.
OnCloseKeepsDc ==
    /\ ~crashed
    /\ ConnFrame
    /\ chan.onClose = "pending"
    /\ chan.pipeBuf = 0
    /\ conn.lock = "free"
    /\ chan' = [chan EXCEPT !.pwClosed = TRUE, !.onClose = "done"]
    /\ UNCHANGED <<tokens, pcState, pcCloses, hd, connOnce, rets, crashed,
                   conn, ws, gor, obs>>

\* dc.OnClose: conn.lock.Lock(); conn.dc = nil; dc.Close(); pw.Close(); and
\* the deferred Unlock. The channel delivers its callbacks one at a time, so
\* OnClose follows an OnMessage still in progress.
OnClose ==
    /\ ~crashed
    /\ ConnFrame
    /\ chan.onClose = "pending"
    /\ chan.pipeBuf = 0
    /\ conn.lock = "free"
    /\ conn' = [conn EXCEPT !.dc = FALSE]
    /\ chan' = [chan EXCEPT !.pwClosed = TRUE, !.onClose = "done"]
    /\ UNCHANGED <<tokens, pcState, pcCloses, hd, connOnce, rets, crashed,
                   ws, gor, obs>>

\* The open data channel puts DrainChunk buffered bytes on the wire. When
\* the buffered amount falls from above bufferedAmountLowThreshold to it or
\* below, the channel calls OnBufferedAmountLow, which makes a non-blocking
\* send on sendMoreCh (capacity 1).
OnBufferedAmountLow ==
    /\ ~crashed
    /\ ConnFrame
    /\ chan.dcOpen
    /\ chan.buffered > 0
    /\ LET after == IF chan.buffered > DrainChunk
                    THEN chan.buffered - DrainChunk ELSE 0
       IN /\ chan' = [chan EXCEPT !.buffered = after]
          /\ conn' = [conn EXCEPT !.sendMoreCh =
                        IF /\ chan.buffered > bufferedAmountLowThreshold
                           /\ after <= bufferedAmountLowThreshold
                        THEN 1 ELSE @]
    /\ UNCHANGED <<tokens, pcState, pcCloses, hd, connOnce, rets, crashed,
                   ws, gor, obs>>

\* The relay closes its end of the websocket.
RelayClose ==
    /\ ~crashed
    /\ ConnFrame
    /\ ~ws.relayClosed
    /\ hd[TheSession] \in {"CopyLoop", "wgWait"}
    /\ ws' = [ws EXCEPT !.relayClosed = TRUE]
    /\ UNCHANGED <<tokens, pcState, pcCloses, hd, connOnce, rets, crashed,
                   conn, chan, gor, obs>>

\* -------------------------------------------------------------- CopyLoop

\* CopyLoop: wg.Add(2); go copyer(c1, c2); go copyer(c2, c1), with c1 the
\* webRTCConn and c2 the websocket. gor.up is copyer(conn, ws), which reads
\* the relay and writes to the peer; gor.down is copyer(ws, conn).
CopyLoopStart ==
    /\ ~crashed
    /\ ConnFrame
    /\ hd[TheSession] = "CopyLoop"
    /\ hd' = [hd EXCEPT ![TheSession] = "wgWait"]
    /\ gor' = [gor EXCEPT !.up = "read", !.down = "read"]
    /\ UNCHANGED <<tokens, pcState, pcCloses, connOnce, rets, crashed,
                   conn, chan, ws, obs>>

\* copyer(conn, ws): io.Copy reads the websocket. A read on the closed
\* websocket fails, a read after the relay closed returns EOF; io.Copy then
\* returns. Otherwise the message read is handed to conn.Write.
UpRead ==
    /\ ~crashed
    /\ ConnFrame
    /\ gor.up = "read"
    /\ \/ /\ ws.closed \/ ws.relayClosed
          /\ gor' = [gor EXCEPT !.up = "closeDst"]
          /\ UNCHANGED ws
       \/ /\ ~ws.closed /\ ~ws.relayClosed
          /\ ws.relayLeft > 0
          /\ \E len \in MsgLens :
                gor' = [gor EXCEPT !.up = "Write", !.wlen = len]
          /\ ws' = [ws EXCEPT !.relayLeft = @ - 1]
    /\ UNCHANGED <<tokens, pcState, pcCloses, hd, connOnce, rets, crashed,
                   conn, chan, obs>>

\* copyer(conn, ws): dst.Close(), which is conn.Close()
UpCloseDst ==
    /\ ~crashed
    /\ ConnFrame
    /\ gor.up = "closeDst"
    /\ libClose
    /\ gor' = [gor EXCEPT !.up = "closeSrc"]
    /\ UNCHANGED <<tokens, hd, rets, crashed, ws>>

\* copyer(conn, ws): src.Close(), which is wsConn.Close(); then wg.Done()
UpCloseSrc ==
    /\ ~crashed
    /\ ConnFrame
    /\ gor.up = "closeSrc"
    /\ ws' = [ws EXCEPT !.closed = TRUE]
    /\ gor' = [gor EXCEPT !.up = "done"]
    /\ UNCHANGED <<tokens, pcState, pcCloses, hd, connOnce, rets, crashed,
                   conn, chan, obs>>

\* copyer(ws, conn): io.Copy calls conn.Read, which is c.pr.Read(b). A read
\* on the closed reader fails; a message being written is taken; with the
\* writer closed and nothing to take the read returns EOF.
DownRead ==
    /\ ~crashed
    /\ ConnFrame
    /\ gor.down = "read"
    /\ \/ /\ chan.prClosed
          /\ gor' = [gor EXCEPT !.down = "closeDst"]
          /\ UNCHANGED chan
       \/ /\ ~chan.prClosed
          /\ chan.pipeBuf > 0
          /\ chan' = [chan EXCEPT !.pipeBuf = 0]
          /\ gor' = [gor EXCEPT !.down = "wsWrite"]
       \/ /\ ~chan.prClosed
          /\ chan.pipeBuf = 0
          /\ chan.pwClosed
          /\ gor' = [gor EXCEPT !.down = "closeDst"]
          /\ UNCHANGED chan
    /\ UNCHANGED <<tokens, pcState, pcCloses, hd, connOnce, rets, crashed,
                   conn, ws, obs>>

\* copyer(ws, conn): io.Copy writes what it read to the websocket; the write
\* fails when the websocket is closed on either side.
DownWsWrite ==
    /\ ~crashed
    /\ ConnFrame
    /\ gor.down = "wsWrite"
    /\ gor' = [gor EXCEPT !.down = IF ws.closed \/ ws.relayClosed
                                   THEN "closeDst" ELSE "read"]
    /\ UNCHANGED <<tokens, pcState, pcCloses, hd, connOnce, rets, crashed,
                   conn, chan, ws, obs>>

\* copyer(ws, conn): dst.Close(), which is wsConn.Close()
DownCloseDst ==
    /\ ~crashed
    /\ ConnFrame
    /\ gor.down = "closeDst"
    /\ ws' = [ws EXCEPT !.closed = TRUE]
    /\ gor' = [gor EXCEPT !.down = "closeSrc"]
    /\ UNCHANGED <<tokens, pcState, pcCloses, hd, connOnce, rets, crashed,
                   conn, chan, obs>>

\* A copyer that closes only its destination.
DownCloseSrcSkipped ==
    /\ ~crashed
    /\ ConnFrame
    /\ gor.down = "closeSrc"
    /\ gor' = [gor EXCEPT !.down = "done"]
    /\ UNCHANGED <<tokens, pcState, pcCloses, hd, connOnce, rets, crashed,
                   conn, chan, ws, obs>>

\* copyer(ws, conn): src.Close(), which is conn.Close(); then wg.Done()
DownCloseSrc ==
    /\ ~crashed
    /\ ConnFrame
    /\ gor.down = "closeSrc"
    /\ libClose
    /\ gor' = [gor EXCEPT !.down = "done"]
    /\ UNCHANGED <<tokens, hd, rets, crashed, ws>>

\* CopyLoop: wg.Wait() returns once both copyers have called wg.Done().
CopyLoopWait ==
    /\ ~crashed
    /\ ConnFrame
    /\ hd[TheSession] = "wgWait"
    /\ gor.up = "done"
    /\ gor.down = "done"
    /\ hd' = [hd EXCEPT ![TheSession] = "wsClose"]
    /\ UNCHANGED <<tokens, pcState, pcCloses, connOnce, rets, crashed,
                   conn, chan, ws, gor, obs>>

\* datachannelHandler: defer wsConn.Close(), the first deferred call to run.
HandlerWsClose ==
    /\ ~crashed
    /\ ConnFrame
    /\ hd[TheSession] = "wsClose"
    /\ ws' = [ws EXCEPT !.closed = TRUE]
    /\ hd' = [hd EXCEPT ![TheSession] = "retToken"]
    /\ UNCHANGED <<tokens, pcState, pcCloses, connOnce, rets, crashed,
                   conn, chan, gor, obs>>

\* datachannelHandler: defer conn.Close(), the last deferred call to run.
HandlerLibConnClose ==
    /\ ~crashed
    /\ ConnFrame
    /\ hd[TheSession] = "connClose"
    /\ libClose
    /\ hd' = [hd EXCEPT ![TheSession] = "done"]
    /\ UNCHANGED <<tokens, rets, crashed, ws, gor>>

\* ======================================================================
\* The session type of proxy/snowflake.go bridged by CopyLoop
\* ======================================================================

\* conn := &webRTCConn{pc: pc, dc: dc, pr: pr} in OnDataChannel: this type
\* has no watchdog and no send gate.
mainWebRTCConn ==
    /\ conn = [dc |-> TRUE, lock |-> "free", ctxDone |-> FALSE,
               activity |-> 0, sendMoreCh |-> 0, timerLeft |-> 0]
    /\ chan = [dcOpen |-> TRUE, buffered |-> 0, pwClosed |-> FALSE,
               prClosed |-> FALSE, pipeBuf |-> 0, onClose |-> "idle",
               peerLeft |-> MaxPeerMsgs]
    /\ ws = [closed |-> FALSE, relayClosed |-> FALSE,
             relayLeft |-> MaxRelayMsgs]
    /\ gor = [up |-> "idle", down |-> "idle", wd |-> "none", wlen |-> 0]
    /\ obs = [closeCalls |-> 0, prCloses |-> 0, cancels |-> 0,
              writeAge |-> 0, recvAge |-> 0, inTime |-> FALSE,
              cur |-> NoWrite,
              last |-> NoWrite]

\* func (c *webRTCConn) Close(): c.once.Do(func() { err = c.pc.Close() }),
\* with what pc.Close() does to the data channel: it closes, and its OnClose
\* callback becomes due. The pipe's reader is left open.
mainClose ==
    /\ connClose(TheSession)
    /\ obs' = [obs EXCEPT !.closeCalls = @ + 1]
    /\ IF connOnce[TheSession]
       THEN UNCHANGED chan
       ELSE chan' = [chan EXCEPT !.dcOpen = FALSE,
                                 !.onClose = IF chan.dcOpen /\ @ = "idle"
                                             THEN "pending" ELSE @]

\* Write: c.lock.Lock()
mainWriteLock ==
    /\ ~crashed
    /\ ConnFrame
    /\ gor.up = "Write"
    /\ conn.lock = "free"
    /\ conn' = [conn EXCEPT !.lock = "Write"]
    /\ obs' = [obs EXCEPT !.cur = [NoWrite EXCEPT
                                     !.len = gor.wlen,
                                     !.afterOnClose = (chan.onClose = "done")]]
    /\ gor' = [gor EXCEPT !.up = "writeSend"]
    /\ UNCHANGED <<tokens, pcState, pcCloses, hd, connOnce, rets, crashed,
                   chan, ws>>

\* Write: if c.dc != nil { c.dc.Send(b) }; what follows is
\* return len(b), nil.
mainWriteSend ==
    /\ ~crashed
    /\ ConnFrame
    /\ gor.up = "writeSend"
    /\ IF conn.dc
       THEN /\ chan' = [chan EXCEPT !.buffered =
                          IF chan.dcOpen THEN @ + gor.wlen ELSE @]
            /\ obs' = [obs EXCEPT !.cur.sent = TRUE]
       ELSE UNCHANGED <<chan, obs>>
    /\ gor' = [gor EXCEPT !.up = "writeReturn"]
    /\ UNCHANGED <<tokens, pcState, pcCloses, hd, connOnce, rets, crashed,
                   conn, ws>>

\* The open data channel puts what is buffered on the wire.
mainDrain ==
    /\ ~crashed
    /\ ConnFrame
    /\ chan.dcOpen
    /\ chan.buffered > 0
    /\ chan' = [chan EXCEPT !.buffered = 0]
    /\ UNCHANGED <<tokens, pcState, pcCloses, hd, connOnce, rets, crashed,
                   conn, ws, gor, obs>>

\* A copyer(conn, ws) that ends without dst.Close().
mainUpCloseDstSkipped ==
    /\ ~crashed
    /\ ConnFrame
    /\ gor.up = "closeDst"
    /\ gor' = [gor EXCEPT !.up = "closeSrc"]
    /\ UNCHANGED <<tokens, pcState, pcCloses, hd, connOnce, rets, crashed,
                   conn, chan, ws, obs>>

\* copyer(conn, ws): dst.Close(), which is conn.Close()
mainUpCloseDst ==
    /\ ~crashed
    /\ ConnFrame
    /\ gor.up = "closeDst"
    /\ mainClose
    /\ gor' = [gor EXCEPT !.up = "closeSrc"]
    /\ UNCHANGED <<tokens, hd, rets, crashed, ws, conn>>

\* copyer(ws, conn): src.Close(), which is conn.Close(); then wg.Done()
mainDownCloseSrc ==
    /\ ~crashed
    /\ ConnFrame
    /\ gor.down = "closeSrc"
    /\ mainClose
    /\ gor' = [gor EXCEPT !.down = "done"]
    /\ UNCHANGED <<tokens, hd, rets, crashed, ws, conn>>

\* datachannelHandler: defer conn.Close(), the last deferred call to run.
mainHandlerConnClose ==
    /\ ~crashed
    /\ ConnFrame
    /\ hd[TheSession] = "connClose"
    /\ mainClose
    /\ hd' = [hd EXCEPT ![TheSession] = "done"]
    /\ UNCHANGED <<tokens, rets, crashed, ws, gor, conn>>

\* ======================================================================
\* One call of pollOffer in detail (proxy/snowflake.go)
\* ======================================================================

\* No pollOffer call is followed.
InitNoPoll ==
    poll = [pc |-> "idle", clock |-> 0, timeOfNextPoll |-> 0, now |-> 0,
            starts |-> 0, lastStart |-> 0, prevStart |-> 0, took |-> 0,
            retries |-> 0, last |-> "none", result |-> "none"]

\* main has taken a token and runSession(TheSession) calls broker.pollOffer.
InitSupPoll ==
    /\ tokens = Capacity - 1
    /\ supPC = "runSession"
    /\ nextSid = TheSession + 1
    /\ rs = [s \in Sessions |-> IF s = TheSession THEN "pollOffer" ELSE "idle"]
    /\ rsExit = [s \in Sessions |-> "none"]
    /\ pcState = [s \in Sessions |-> "none"]
    /\ pcCloses = [s \in Sessions |-> 0]
    /\ answerSent = [s \in Sessions |-> FALSE]
    /\ dataChan = [s \in Sessions |-> "open"]
    /\ waited = 0
    /\ hd = [s \in Sessions |-> "none"]
    /\ connOnce = [s \in Sessions |-> FALSE]
    /\ rets = [s \in Sessions |-> 0]
    /\ rsRets = [s \in Sessions |-> 0]
    /\ crashed = FALSE

\* What a step inside pollOffer leaves alone.
PollFrame ==
    UNCHANGED <<sinkVars, connVars, sdpVars, tokens, supPC, nextSid, rsExit, pcState,
                pcCloses, answerSent, dataChan, waited, hd, connOnce, rets,
                rsRets, crashed>>

\* A second passes while pollOffer sleeps, until the time it sleeps to, or
\* while its request is with the broker.
TickPoll ==
    /\ \/ poll.pc = "sleep" /\ poll.clock < poll.timeOfNextPoll
       \/ poll.pc = "roundTrip"
    /\ poll.clock < MaxPollClock
    /\ poll' = [poll EXCEPT !.clock = @ + 1]
    /\ PollFrame
    /\ UNCHANGED rs

\* pollOffer: timeOfNextPoll := time.Now()
pollOfferEnter ==
    /\ rs[TheSession] = "pollOffer"
    /\ poll.pc = "idle"
    /\ poll.result = "none"
    /\ poll' = [poll EXCEPT !.pc = "now", !.timeOfNextPoll = poll.clock]
    /\ PollFrame
    /\ UNCHANGED rs

\* pollOffer, top of the loop: now := time.Now(). poll.took is the time
\* since the poll before was started.
pollNow ==
    /\ poll.pc = "now"
    /\ poll' = [poll EXCEPT !.pc = "sleep",
                            !.now = poll.clock,
                            !.took = IF poll.starts = 0 THEN 0
                                     ELSE poll.clock - poll.lastStart]
    /\ PollFrame
    /\ UNCHANGED rs

\* timeOfNextPoll = timeOfNextPoll.Add(pollInterval);
\* if timeOfNextPoll.Before(now) { timeOfNextPoll = now }
NextPollTime(scheduled, seen) ==
    IF scheduled + pollInterval < seen
    THEN seen
    ELSE scheduled + pollInterval

\* pollOffer: time.Sleep(timeOfNextPoll.Sub(now)) has returned, the time of
\* the next poll is computed, and the poll request is made.
pollSleep ==
    /\ poll.pc = "sleep"
    /\ poll.starts < MaxPolls
    /\ poll.clock >= poll.timeOfNextPoll
    /\ poll' = [poll EXCEPT
                  !.pc = "roundTrip",
                  !.timeOfNextPoll = NextPollTime(poll.timeOfNextPoll, poll.now),
                  !.starts = @ + 1,
                  !.prevStart = poll.lastStart,
                  !.lastStart = poll.clock]
    /\ PollFrame
    /\ UNCHANGED rs

\* What one poll can come to: the request cannot be encoded; the round trip
\* fails; the status is not 200; the body cannot be read; the response cannot
\* be decoded; the offer is empty; the offer cannot be deserialized; an offer.
PollAttempts == {"encodeError", "transportError", "badStatus", "readError",
                 "decodeError", "emptyOffer", "deserializeError", "offer"}

\* A pollOffer that gives up on a status other than 200.
PollReturnOnBadStatus(o) ==
    CASE o = "offer" -> "offer"
      [] o \in {"encodeError", "decodeError", "deserializeError",
                "badStatus"} -> "nil"
      [] OTHER -> "none"

\* The outcomes after which pollOffer returns, and what it returns.
PollReturn(o) ==
    CASE o = "offer" -> "offer"
      [] o \in {"encodeError", "decodeError", "deserializeError"} -> "nil"
      [] OTHER -> "none"

\* pollOffer, the rest of the loop body: the request is encoded and posted
\* and the response is examined. pollOffer returns the offer, returns nil,
\* or goes round the loop; runSession goes on with what it returned.
pollAttempt ==
    /\ poll.pc = "roundTrip"
    /\ \E o \in PollAttempts :
          /\ poll' = [poll EXCEPT
                        !.last = o,
                        !.result = PollReturn(o),
                        !.retries = IF PollReturn(o) = "none" THEN @ + 1 ELSE @,
                        !.pc = IF PollReturn(o) = "none" THEN "now"
                               ELSE "idle"]
          /\ rs' = [rs EXCEPT ![TheSession] =
                      CASE PollReturn(o) = "offer" -> "NewPeerConnection"
                        [] PollReturn(o) = "nil" -> "retBadOffer"
                        [] OTHER -> @]
    /\ PollFrame

\* ======================================================================
\* The remote address of a session (remoteIPFromSDP)
\* ======================================================================

\* net.IP(nil)
NoIP == "nil"

\* The address texts met in candidates and c= lines: two public IPv4
\* addresses, a public IPv6 address, a private, a loopback and an
\* unspecified address of each family, an mDNS name, and digits and dots
\* that are no address.
IPv4Texts == {"8.8.8.8", "1.1.1.1", "192.168.1.1", "127.0.0.1", "0.0.0.0"}
IPv6Texts == {"2620:fe::9", "fd00::1", "::1", "::"}
OtherTexts == {"host.local", "999.9.9.9"}

\* net.ParseIP: the address of a text that is one, nil for any other.
ParseIP(text) == IF text \in IPv4Texts \cup IPv6Texts THEN text ELSE NoIP

\* util.IsLocal: private and link-local addresses.
IsLocal(ip) == ip \in {"192.168.1.1", "fd00::1"}
\* net.IP.IsUnspecified
IsUnspecified(ip) == ip \in {"0.0.0.0", "::"}
\* net.IP.IsLoopback
IsLoopback(ip) == ip \in {"127.0.0.1", "::1"}

\* func isRemoteAddress(ip net.IP) bool
isRemoteAddress(ip) == ~(IsLocal(ip) \/ IsUnspecified(ip) \/ IsLoopback(ip))

\* The attributes of a media description: one that is no candidate, a
\* candidate that ToICECandidate rejects, and candidates with an address.
CandidateTexts == {"8.8.8.8", "1.1.1.1", "192.168.1.1", "127.0.0.1",
                   "0.0.0.0", "host.local"}
Attributes ==
    {[key |-> "mid", ok |-> FALSE, address |-> "host.local"],
     [key |-> "candidate", ok |-> FALSE, address |-> "8.8.8.8"]}
    \cup [key : {"candidate"}, ok : {TRUE}, address : CandidateTexts]

\* The c= lines of the text, in the order of the text.
CLines ==
    [family : {"IP4"}, address : {"1.1.1.1", "0.0.0.0", "999.9.9.9"}]
    \cup [family : {"IP6"}, address : {"2620:fe::9", "::1", "8.8.8.8"}]

\* The sequences over S of length at most n.
SeqUpTo(S, n) == UNION {[1..k -> S] : k \in 0..n}

\* The texts handed to remoteIPFromSDP: whether desc.Unmarshal accepts the
\* text, the media descriptions it holds with their attributes, and its c=
\* lines.
SDPTexts ==
    [parses : BOOLEAN,
     media : SeqUpTo(SeqUpTo(Attributes, MaxAttrs), MaxMedia),
     clines : SeqUpTo(CLines, MaxCLines)]

\* var remoteIPPatterns: the IPv4 pattern, then the IPv6 pattern, each with
\* the texts its character class lets through ([\d.]+ and [0-9A-Fa-f:.]+).
remoteIPPatterns ==
    <<[family |-> "IP4", class |-> IPv4Texts \cup {"999.9.9.9"}],
      [family |-> "IP6", class |-> IPv4Texts \cup IPv6Texts \cup {"999.9.9.9"}]>>

\* The inner loop of remoteIPFromSDP from attribute i of one media
\* description: the first candidate that ToICECandidate accepts and whose
\* address parses and is remote; nil when there is none.
RECURSIVE AttributeScan(_, _)
AttributeScan(attrs, i) ==
    IF i > Len(attrs) THEN NoIP
    ELSE LET a == attrs[i]
             ip == ParseIP(a.address)
         IN IF a.key = "candidate" /\ a.ok /\ ip # NoIP /\ isRemoteAddress(ip)
            THEN ip
            ELSE AttributeScan(attrs, i + 1)

\* The outer loop, from media description j.
RECURSIVE MediaScan(_, _)
MediaScan(media, j) ==
    IF j > Len(media) THEN NoIP
    ELSE LET ip == AttributeScan(media[j], 1)
         IN IF ip # NoIP THEN ip ELSE MediaScan(media, j + 1)

\* pattern.FindStringSubmatch(str): the address of the first c= line the
\* pattern matches; nil when it matches none.
RECURSIVE FindStringSubmatch(_, _, _)
FindStringSubmatch(pattern, clines, i) ==
    IF i > Len(clines) THEN NoIP
    ELSE IF /\ clines[i].family = pattern.family
            /\ clines[i].address \in pattern.class
         THEN clines[i].address
         ELSE FindStringSubmatch(pattern, clines, i + 1)

\* The loop over remoteIPPatterns, from pattern k.
RECURSIVE PatternScan(_, _)
PatternScan(clines, k) ==
    IF k > Len(remoteIPPatterns) THEN NoIP
    ELSE LET m == FindStringSubmatch(remoteIPPatterns[k], clines, 1)
             ip == IF m = NoIP THEN NoIP ELSE ParseIP(m)
         IN IF ip # NoIP /\ isRemoteAddress(ip)
            THEN ip
            ELSE PatternScan(clines, k + 1)

\* func remoteIPFromSDP(str string) net.IP
remoteIPFromSDP(str) ==
    IF ~str.parses THEN NoIP
    ELSE LET ip == MediaScan(str.media, 1)
         IN IF ip # NoIP THEN ip ELSE PatternScan(str.clines, 1)

\* No RemoteAddr call is followed.
InitNoSdp == sdp = [pc |-> "idle", set |-> FALSE, str |-> <<>>, ip |-> NoIP]

\* The text of no description.
NoText == [parses |-> FALSE, media |-> <<>>, clines |-> <<>>]

\* The remote description of the session is any of the texts, or the peer
\* connection has none yet: pc.RemoteDescription() is nil.
InitSdpTexts ==
    \/ \E str \in SDPTexts :
          sdp = [pc |-> "called", set |-> TRUE, str |-> str, ip |-> NoIP]
    \/ sdp = [pc |-> "called", set |-> FALSE, str |-> NoText, ip |-> NoIP]

\* func (c *webRTCConn) RemoteAddr() net.Addr:
\* clientIP := remoteIPFromSDP(c.pc.RemoteDescription().SDP)
\* (RemoteIP in proxy/lib/webrtcconn.go). The .SDP of a nil description is a
\* nil pointer dereference: the call panics.
RemoteAddr ==
    /\ sdp.pc = "called"
    /\ IF sdp.set
       THEN sdp' = [sdp EXCEPT !.pc = "returned",
                               !.ip = remoteIPFromSDP(sdp.str)]
       ELSE sdp' = [sdp EXCEPT !.pc = "panic"]
    /\ UNCHANGED <<supVars, sinkVars, connVars, pollVars>>

\* ======================================================================
\* The specifications
\* ======================================================================

Init == InitSup /\ InitSink /\ InitNoConn /\ InitNoPoll /\ InitNoSdp

Next ==
    \/ SupGetToken
    \/ TickSelect
    \/ \E s \in Sessions :
          \/ pollOffer(s)
          \/ NewPeerConnection(s)
          \/ SetRemoteDescription(s)
          \/ CreateAnswer(s)
          \/ SetLocalDescription(s)
          \/ sendAnswerRoundTrip(s)
          \/ sendAnswerResponse(s)
          \/ AnswerErrClose(s)
          \/ SelectDataChan(s)
          \/ SelectTimeout(s)
          \/ TimeoutClose(s)
          \/ runSessionRetToken(s)
          \/ OnDataChannel(s)
          \/ Dial(s)
          \/ HandlerCopyLoop(s)
          \/ HandlerRetToken(s)
          \/ HandlerConnClose(s)

Spec == Init /\ [][Next]_vars

NextSink ==
    \/ TickSink
    \/ \E c \in Callers :
          \/ CallWriteIPSetToDisk(c)
          \/ FlushWriteSink(c)
          \/ FlushResetSink(c)
          \/ FlushSetLastWriteTime(c)
          \/ FlushReturned(c)
          \/ CallAddIPToSet(c)
          \/ AddLockAndCheck(c)
          \/ AddInsert(c)

SpecSink == Init /\ [][NextSink]_vars

\* The cluster used by one goroutine, as TestSinkWriter uses it.
TestCaller == 1

NextSinkTest ==
    \/ TickSink
    \/ CallWriteIPSetToDisk(TestCaller)
    \/ FlushWriteSink(TestCaller)
    \/ FlushResetSink(TestCaller)
    \/ FlushSetLastWriteTime(TestCaller)
    \/ FlushReturned(TestCaller)
    \/ CallAddIPToSet(TestCaller)
    \/ AddLockAndCheck(TestCaller)
    \/ AddInsert(TestCaller)

SpecSinkTest == Init /\ [][NextSinkTest]_vars

\* The cluster with callers that may pass a name it was not constructed with.
NextSinkNames ==
    \/ TickSink
    \/ \E c \in Callers :
          \/ FlushWriteSink(c)
          \/ FlushResetSink(c)
          \/ FlushSetLastWriteTime(c)
          \/ CallAddIPToSet(c)
          \/ CallAddIPToSetUnregistered(c)
          \/ AddLockAndCheck(c)
          \/ AddInsert(c)

SpecSinkNames == Init /\ [][NextSinkNames]_vars

InitConn == InitSupBridge /\ InitSink /\ newWebRTCConn /\ InitNoPoll /\ InitNoSdp

\* The steps of the session's own goroutines and callbacks.
ProgramStep ==
    \/ timeoutLoopTimer
    \/ timeoutLoopActivity
    \/ timeoutLoopDone
    \/ WriteActivity
    \/ WriteLock
    \/ WriteSend
    \/ WriteCheck
    \/ WriteWait
    \/ WriteReturn
    \/ OnMessageShortWrite
    \/ OnClose
    \/ Dial(TheSession)
    \/ CopyLoopStart
    \/ UpRead
    \/ UpCloseDst
    \/ UpCloseSrc
    \/ DownRead
    \/ DownWsWrite
    \/ DownCloseDst
    \/ DownCloseSrc
    \/ CopyLoopWait
    \/ HandlerWsClose
    \/ HandlerRetToken(TheSession)
    \/ HandlerLibConnClose

\* What the peer, the relay, the network and the clock do.
EnvironmentStep ==
    \/ TickConn
    \/ OnMessage
    \/ PeerClose
    \/ OnBufferedAmountLow
    \/ RelayClose

NextConn == ProgramStep \/ EnvironmentStep

SpecConn == InitConn /\ [][NextConn]_vars

\* The scheduler runs a goroutine that can take a step.
SpecConnFair == SpecConn /\ WF_vars(ProgramStep)

\* The session with its activity channel full or nearly full.
InitConnBacklog ==
    InitSupBridge /\ InitSink /\ newWebRTCConnBacklog /\ InitNoPoll /\ InitNoSdp

\* The steps of the session in a burst of traffic, too short for the clock
\* of the inactivity timer to move.
NextConnBacklog ==
    \/ timeoutLoopActivity
    \/ timeoutLoopDone
    \/ WriteActivity
    \/ WriteLock
    \/ WriteSend
    \/ WriteCheck
    \/ WriteWait
    \/ WriteReturn
    \/ OnMessageShortWrite
    \/ OnClose
    \/ Dial(TheSession)
    \/ CopyLoopStart
    \/ UpRead
    \/ UpCloseDst
    \/ UpCloseSrc
    \/ DownRead
    \/ DownWsWrite
    \/ DownCloseDst
    \/ DownCloseSrc
    \/ CopyLoopWait
    \/ HandlerWsClose
    \/ HandlerRetToken(TheSession)
    \/ HandlerLibConnClose
    \/ OnMessage
    \/ PeerClose
    \/ OnBufferedAmountLow
    \/ RelayClose

SpecConnBacklog == InitConnBacklog /\ [][NextConnBacklog]_vars

InitMainConn ==
    InitSupBridge /\ InitSink /\ mainWebRTCConn /\ InitNoPoll /\ InitNoSdp

\* The steps of the goroutines and callbacks of the session of
\* proxy/snowflake.go.
MainProgramStep ==
    \/ mainWriteLock
    \/ mainWriteSend
    \/ WriteReturn
    \/ OnClose
    \/ Dial(TheSession)
    \/ CopyLoopStart
    \/ UpRead
    \/ mainUpCloseDst
    \/ UpCloseSrc
    \/ DownRead
    \/ DownWsWrite
    \/ DownCloseDst
    \/ mainDownCloseSrc
    \/ CopyLoopWait
    \/ HandlerWsClose
    \/ HandlerRetToken(TheSession)
    \/ mainHandlerConnClose

\* What the peer, the relay and the network do.
MainEnvironmentStep ==
    \/ OnMessage
    \/ PeerClose
    \/ mainDrain
    \/ RelayClose

NextMainConn == MainProgramStep \/ MainEnvironmentStep

SpecMainConn == InitMainConn /\ [][NextMainConn]_vars

\* The scheduler runs a goroutine that can take a step.
SpecMainConnFair == SpecMainConn /\ WF_vars(MainProgramStep)

InitPoll == InitSupPoll /\ InitSink /\ InitNoConn /\ InitNoPoll /\ InitNoSdp

NextPoll ==
    \/ TickPoll
    \/ pollOfferEnter
    \/ pollNow
    \/ pollSleep
    \/ pollAttempt
    \/ runSessionRetToken(TheSession)

SpecPoll == InitPoll /\ [][NextPoll]_vars

InitSdp == InitSup /\ InitSink /\ InitNoConn /\ InitNoPoll /\ InitSdpTexts

NextSdp == RemoteAddr

SpecSdp == InitSdp /\ [][NextSdp]_vars

\* ======================================================================
\* Claims about the supervisor and its sessions
\* ======================================================================

\* runSession(s) has returned and no datachannelHandler of s is running.
SessionOver(s) == rs[s] = "returned" /\ hd[s] \in {"none", "done"}

\* C1 (token conservation): for every getToken() of the supervisor loop,
\* retToken() is executed exactly once: never more than once for a session,
\* and once when the session is over.
C1_TokenConservation ==
    \A s \in Sessions :
        /\ rets[s] <= 1
        /\ SessionOver(s) => rets[s] = 1

\* A session the supervisor has started and whose runSession or bridge
\* (datachannelHandler up to the return of CopyLoop) has not finished.
Live(s) == rs[s] \notin {"idle", "returned"} \/ hd[s] \in {"Dial", "CopyLoop"}

\* C2 (bounded concurrency): the number of sessions started and not yet
\* finished never exceeds the capacity the token channel was filled with.
C2_BoundedConcurrency ==
    Cardinality({s \in Sessions : Live(s)}) <= Capacity

\* C6 (data-channel timeout): when the dataChannelTimeout timer has woken
\* the select with dataChan still open, runSession closes the peer connection,
\* returns the token and returns to the supervisor loop (its retToken() does
\* not block, short of a panic of the process); when dataChan is closed first
\* it returns without closing the peer connection and without a retToken() of
\* its own.
C6_DataChannelTimeout ==
    \A s \in Sessions :
        /\ (rs[s] = "retTimeout" /\ ~crashed) =>
               (pcState[s] = "closed" /\ ENABLED runSessionRetToken(s))
        /\ rsExit[s] = "timeout" => (pcState[s] = "closed" /\ rsRets[s] = 1)
        /\ rsExit[s] = "dataChan" =>
               (rsRets[s] = 0 /\ pcCloses[s] = IF connOnce[s] THEN 1 ELSE 0)

\* The steps of a session that has its offer, in the order of the code.
SessionSteps == <<"NewPeerConnection", "SetRemoteDescription", "CreateAnswer",
                  "SetLocalDescription", "sendAnswer", "sendAnswerResponse",
                  "select">>

\* The place of a step in SessionSteps, 0 for any other position of
\* runSession.
StepIndex(p) ==
    IF \E i \in 1..Len(SessionSteps) : SessionSteps[i] = p
    THEN CHOOSE i \in 1..Len(SessionSteps) : SessionSteps[i] = p
    ELSE 0

C21_DataChannelLiveOnce ==
    \A s \in Sessions : dataChan[s] = "closed" => ~crashed

\* C28 (release after close): a session's token is returned only when that
\* session's peer connection is not open (it was closed, or never created),
\* on runSession's paths and in datachannelHandler's deferred calls alike,
\* so that the open peer connections never outnumber the capacity.
C28_ReleaseAfterClose ==
    /\ [][\A s \in Sessions : rets'[s] > rets[s] => pcState[s] # "open"]_vars
    /\ [](Cardinality({s \in Sessions : pcState[s] = "open"}) <= Capacity)

\* C24 (answer failure handling): when sendAnswer has returned an error,
\* runSession has closed the peer connection before it returns the token; its
\* retToken() then goes through, short of a panic, so that runSession returns
\* and main comes to its next getToken; it has returned the token once and
\* has never waited on dataChan.
C24_AnswerFailure ==
    \A s \in Sessions :
        /\ (rs[s] = "retAnswerError" /\ ~crashed) =>
               (pcState[s] = "closed" /\ ENABLED runSessionRetToken(s))
        /\ rsExit[s] = "answerError" =>
               (pcState[s] = "closed" /\ rsRets[s] = 1 /\ rs[s] = "returned")

\* ======================================================================
\* Claims about the sink cluster
\* ======================================================================

\* The last entry appended to sink n's writer.
LastEntry(n) == written[n][Len(written[n])]

\* C10 (flush atomicity): a WriteIPSetToDisk call in which every dump, marshal
\* and write succeeds has written exactly one entry per sink, has reset every
\* sink's current set exactly once, and has assigned lastWriteTime exactly
\* once, when no sink was left to write or reset; a sink that was reset and
\* not added to since is empty, so the next flush writes an empty dump for it.
C10_FlushAtomicity ==
    /\ \A c \in Callers :
          /\ kcount[c].lwt <= 1
          /\ kcount[c].result = "ok" <=> kcount[c].lwt = 1
          /\ kcount[c].lwt = 1 =>
                \A n \in SinkNames : kcount[c].wrote[n] = 1 /\ kcount[c].resets[n] = 1
          /\ \A n \in SinkNames : kcount[c].resets[n] <= kcount[c].wrote[n]
                                  /\ kcount[c].wrote[n] <= 1
    /\ \A n \in SinkNames : ~dirty[n] => current[n] = {}

\* A successful flush has written an address, and the flush that followed
\* it, with no add in between, has written an empty dump.
C10_Witness ==
    \E c \in Callers, n \in SinkNames :
        /\ kcount[c].result = "ok"
        /\ kpc[c] = "flushReturned"
        /\ Len(written[n]) = 2
        /\ written[n][1].Recorded # {}
        /\ written[n][2].Recorded = {}
        /\ current[n] = {}

\* C11 (flush failure): a WriteIPSetToDisk call in which a dump, a marshal or
\* a write failed has not assigned lastWriteTime and has reset no sink: the
\* recording window is closed for the whole cluster or for no sink.
C11_FlushFailure ==
    \A c \in Callers :
        kcount[c].result = "failed" =>
            /\ kcount[c].lwt = 0
            /\ \A n \in SinkNames : kcount[c].resets[n] = 0

\* The step in which caller c, inside AddIPToSet, appends an entry for the
\* sink it is adding to.
AddFlushWrites(c) ==
    /\ kpc[c] = "flushLoop"
    /\ kflush[c].inAdd
    /\ kpc'[c] = "flushReset"
    /\ kflush'[c].sink = kargs[c].name

\* The step in which AddIPToSet has the lock and looks at the time.
AddChecks(c) == kpc[c] = "addLock" /\ kpc'[c] # "addLock"

\* The step in which AddIPToSet inserts and returns.
AddInserts(c) == kpc[c] = "addInsert" /\ kpc'[c] = "idle"

\* C12 (implicit flush on add): AddIPToSet flushes exactly when
\* lastWriteTime + writeInterval < now, and then before it inserts: the entry
\* that flush writes for the named sink does not contain an address new to
\* the sink, and the address is in the sink's current set when AddIPToSet
\* returns. Without a flush the call writes nothing to any writer.
C12_ImplicitFlushOnAdd ==
    [][\A c \in Callers :
         /\ AddChecks(c) =>
               /\ (lastWriteTime + writeInterval < now) <=> (kpc'[c] = "flushLoop")
               /\ (kpc'[c] # "flushLoop") =>
                     (kpc'[c] = "addInsert" /\ kcount'[c] = NoCount)
               /\ written' = written
               /\ current' = current
         /\ (AddFlushWrites(c) /\ kargs[c].fresh) =>
               kargs[c].ip \notin LastEntry(kargs[c].name)'.Recorded
         /\ AddInserts(c) =>
               /\ kargs[c].ip \in current'[kargs[c].name]
               /\ written' = written
               /\ (kcount[c].result = "none") =>
                     \A n \in SinkNames : kcount[c].wrote[n] = 0]_vars

\* AddIPToSet has returned after a flush that wrote an entry without the new
\* address for the sink that now holds it.
C12_Witness ==
    \E c \in Callers :
        /\ kpc[c] = "idle"
        /\ lock = 0
        /\ kflush[c].inAdd
        /\ kargs[c].fresh
        /\ kcount[c].result = "ok"
        /\ kcount[c].wrote[kargs[c].name] = 1
        /\ Len(written[kargs[c].name]) = 1
        /\ kargs[c].ip \notin written[kargs[c].name][1].Recorded
        /\ kargs[c].ip \in current[kargs[c].name]

\* Caller c is where it reads or writes the sinks' sets or lastWriteTime.
InCluster(c) == kpc[c] \in {"flushLoop", "flushReset", "addInsert"}

\* C13 (sink cluster locking): the lock serializes AddIPToSet and
\* WriteIPSetToDisk: while an AddIPToSet holds the lock and reads or writes
\* the sets or lastWriteTime, no other caller does.
C13_SinkClusterLocking ==
    \A c, d \in Callers :
        (lock = c /\ InCluster(c) /\ InCluster(d)) => c = d

\* C14 (sink entry framing): every entry appended to a writer ends in one
\* newline and has RecordingStart <= RecordingEnd, RecordingEnd being the
\* time of a flush that has begun.
C14_SinkEntryFraming ==
    \A n \in SinkNames : \A i \in 1 .. Len(written[n]) :
        /\ written[n][i].newlines = 1
        /\ written[n][i].RecordingStart <= written[n][i].RecordingEnd
        /\ written[n][i].RecordingEnd <= now

\* The step in which a direct WriteIPSetToDisk call of c appends an entry.
DirectFlushWrites(c) ==
    /\ kpc[c] = "flushLoop"
    /\ ~kflush[c].inAdd
    /\ kpc'[c] = "flushReset"

\* C15 (add then flush delivers data), for one goroutine: a WriteIPSetToDisk
\* call that follows AddIPToSet(name, ip) appends one entry to the writer of
\* name, never a second, and the entry's dump is not empty: it is the dump
\* of a set that holds ip.
C15_AddThenFlush ==
    /\ [][DirectFlushWrites(TestCaller) =>
             LET n == kflush'[TestCaller].sink IN
                /\ Len(written'[n]) = Len(written[n]) + 1
                /\ \A o \in SinkNames \ {n} : written'[o] = written[o]
                /\ (dirty[n] /\ n = kargs[TestCaller].name) =>
                      /\ kargs[TestCaller].ip \in
                            written'[n][Len(written'[n])].Recorded
                      /\ written'[n][Len(written'[n])].Recorded
                            # IPSetDump({})]_vars
    /\ [](\A n \in SinkNames : kcount[TestCaller].wrote[n] <= 1)
    /\ []((kpc[TestCaller] = "flushReturned"
             /\ kcount[TestCaller].result = "ok") =>
              \A n \in SinkNames : kcount[TestCaller].wrote[n] = 1)

\* TestSinkWriter: AddIPToSet("a", 1) on a new cluster, then
\* WriteIPSetToDisk(): the writer of a holds one entry, whose dump holds 1.
C15_Witness ==
    /\ calls = 2
    /\ kpc[TestCaller] = "flushReturned"
    /\ ~kflush[TestCaller].inAdd
    /\ kcount[TestCaller].result = "ok"
    /\ kargs[TestCaller].name = "a"
    /\ Len(written["a"]) = 1
    /\ written["a"][1].Recorded = IPSetDump(IPSetAdd({}, 1))
    /\ written["a"][1].newlines = 1

\* Address ip is in an entry appended to sink n's writer.
OnDisk(n, ip) == \E i \in 1..Len(written[n]) : ip \in written[n][i].Recorded

\* C27 (unregistered sink name): AddIPToSet with a name that was not in the
\* writers map faults: it does not return, it inserts its address into no
\* sink, and the cluster lock is free once it has faulted (a caller that
\* faulted never holds it).
C27_UnregisteredName ==
    /\ [][\A c \in Callers :
             (kpc[c] = "addInsert" /\ kargs[c].name \notin SinkNames
                 /\ kpc'[c] # "addInsert") =>
                (kpc'[c] = "faulted" /\ current' = current /\ lock' = 0)]_vars
    /\ [](\A c \in Callers :
             kpc[c] = "faulted" => (lock # c /\ kargs[c].name \notin SinkNames))

\* A call with an unregistered name has flushed, then faulted, and another
\* caller has taken the lock since.
C27_Witness ==
    \E c \in Callers :
        /\ kpc[c] = "faulted"
        /\ kcount[c].result = "ok"
        /\ lock \in Callers \ {c}

\* C29 (no loss on failed sync): a sink's current set is reset only after its
\* entry has been written and synced successfully: a flush whose write of a
\* sink fails leaves that sink's current set as it was, and so does one whose
\* Sync fails.
C29_NoLossOnFailedSync ==
    [][\A c \in Callers :
          /\ (kpc[c] = "flushLoop" /\ kcount'[c].result = "failed") =>
                 current' = current
          /\ (kpc[c] = "flushReset" /\ kpc'[c] # "flushReset" /\ ~kflush[c].synced) =>
                 current'[kflush[c].sink] = current[kflush[c].sink]]_vars

\* C30 (non-overlapping windows): the entries written to a sink's writer have
\* recording windows that follow one another: the first starts at the time of
\* construction, every later one where the one before it ended, flushes that
\* fail part-way included.
C30_WindowsDoNotOverlap ==
    \A n \in SinkNames : \A i \in 1 .. Len(written[n]) :
        written[n][i].RecordingStart =
            IF i = 1 THEN 0 ELSE written[n][i - 1].RecordingEnd

\* C26 (timer-driven flushing): an address inserted with AddIPToSet is
\* written to its sink's writer once writeInterval has elapsed, with no
\* further call: the clock does not move on from a time at which
\* writeInterval has passed since the last flush and no call is under way
\* while an address of a current set is in no entry of its writer.
C26_TimerFlush ==
    [][(/\ now' = now + 1
        /\ lastWriteTime + writeInterval <= now
        /\ \A c \in Callers : kpc[c] = "idle") =>
           \A n \in SinkNames : \A ip \in current[n] : OnDisk(n, ip)]_vars

\* ======================================================================
\* What is claimed of pollOffer (SpecPoll)
\* ======================================================================

\* The outcomes of a poll that are neither an offer nor a failure to encode
\* or decode.
PollRetries == {"transportError", "badStatus", "readError", "emptyOffer"}

\* C16 (poll robustness): a transport error, a status other than 200, a
\* response-read error and an empty offer send pollOffer round its loop and
\* never make it return; while pollOffer runs the session holds the one
\* token it acquired, with no release and no acquire; pollOffer returns an
\* offer only when one was decoded and nil only after a failure to encode
\* or decode.
C16_PollRobustness ==
    /\ [][(poll.pc = "roundTrip" /\ poll'.last \in PollRetries
            /\ poll'.pc # "roundTrip") =>
             /\ poll'.pc = "now"
             /\ poll'.result = "none"
             /\ rs' = rs]_vars
    /\ [][rs[TheSession] = "pollOffer" =>
             (tokens' = tokens /\ rets' = rets)]_vars
    /\ [](rs[TheSession] = "pollOffer" =>
             /\ tokens = Capacity - 1
             /\ rets[TheSession] = 0
             /\ poll.result = "none")
    /\ [](poll.result = "offer" =>
             (poll.last = "offer" /\ rs[TheSession] = "NewPeerConnection"))
    /\ [](poll.result = "nil" =>
             poll.last \in {"encodeError", "decodeError", "deserializeError"})

\* Three polls have failed and the fourth has returned an offer, the token
\* still held.
C16_Witness ==
    /\ poll.result = "offer"
    /\ poll.retries = 3
    /\ poll.starts = 4
    /\ rs[TheSession] = "NewPeerConnection"
    /\ tokens = Capacity - 1
    /\ rets[TheSession] = 0

\* C17 (poll cadence): two consecutive polls of one pollOffer call are
\* started at least pollInterval apart when less than pollInterval passed
\* between the start of the first and the loop's next look at the clock.
C17_PollCadence ==
    (poll.pc = "roundTrip" /\ poll.starts >= 2 /\ poll.took < pollInterval)
        => poll.lastStart - poll.prevStart >= pollInterval

\* ======================================================================
\* What is claimed of remoteIPFromSDP (SpecSdp)
\* ======================================================================

\* The places <<media description, attribute>> of the ICE candidates of a
\* text whose address is an address and is not local, loopback or
\* unspecified.
RemoteCandidates(str) ==
    {q \in (1..MaxMedia) \X (1..MaxAttrs) :
        /\ q[1] <= Len(str.media)
        /\ q[2] <= Len(str.media[q[1]])
        /\ LET a == str.media[q[1]][q[2]]
           IN /\ a.key = "candidate"
              /\ a.ok
              /\ ParseIP(a.address) # NoIP
              /\ isRemoteAddress(ParseIP(a.address))}

\* Place q comes before place r in media and attribute order.
Before(q, r) == q[1] < r[1] \/ (q[1] = r[1] /\ q[2] < r[2])

\* The address of the c= line that pattern k of remoteIPPatterns matches,
\* when it is an address and is not local, loopback or unspecified.
RemoteConnection(str, k) ==
    LET m == FindStringSubmatch(remoteIPPatterns[k], str.clines, 1)
    IN IF m # NoIP /\ ParseIP(m) # NoIP /\ isRemoteAddress(ParseIP(m))
       THEN ParseIP(m)
       ELSE NoIP

C25_RemoteIPBeforeNegotiation ==
    (~sdp.set /\ sdp.pc \notin {"idle", "called"}) =>
        (sdp.pc = "returned" /\ sdp.ip = NoIP)

\* ======================================================================
\* What is claimed of the session (SpecConn)
\* ======================================================================

\* A step that is a call of webRTCConn.Close().
CloseCall == obs'.closeCalls = obs.closeCalls + 1

\* C3 (Close idempotence): however many Close() calls the copy tasks, the
\* watchdog and the handler's defer have made, once one has been made the
\* peer connection's Close, the pipe reader's Close and the watchdog's cancel
\* have each been invoked exactly once; a call after the first changes
\* nothing of the session.
C3_CloseIdempotence ==
    /\ [](/\ obs.closeCalls = 0 =>
               /\ pcCloses[TheSession] = 0
               /\ obs.prCloses = 0
               /\ obs.cancels = 0
          /\ obs.closeCalls >= 1 =>
               /\ pcCloses[TheSession] = 1
               /\ obs.prCloses = 1
               /\ obs.cancels = 1)
    /\ [][(CloseCall /\ obs.closeCalls >= 1) =>
             UNCHANGED <<conn, chan, ws, pcState, pcCloses, connOnce, tokens>>]_vars

\* Close() has been called by both copy tasks, by the watchdog and by the
\* handler's defer.
C3_Witness ==
    /\ obs.closeCalls = 4
    /\ gor.wd = "closed"
    /\ gor.up = "done"
    /\ gor.down = "done"
    /\ hd[TheSession] = "done"
    /\ pcCloses[TheSession] = 1

\* C22 (activity signal never blocks): c.activity never holds more than
\* its 100 signals; a Write that stands at its send on c.activity can always
\* take the step, whether timeoutLoop is still running or has returned; the
\* step leaves Write at c.lock.Lock(), with one more signal in the channel
\* or, when it held 100, with the same 100 and the signal dropped.
C22_ActivityNeverBlocks ==
    /\ [](conn.activity <= activityCap)
    /\ []((gor.up = "Write" /\ ~crashed) => ENABLED WriteActivity)
    /\ [][(gor.up = "Write" /\ gor'.up # "Write") =>
             /\ gor'.up = "writeLock"
             /\ obs'.cur.dropped = (conn.activity = activityCap)
             /\ conn'.activity =
                    IF conn.activity = activityCap THEN activityCap
                    ELSE conn.activity + 1]_vars

\* A Write has dropped its signal on the full channel, timeoutLoop gone, and
\* has reached its send step.
C22_Witness ==
    /\ obs.cur.dropped
    /\ conn.activity = activityCap
    /\ gor.wd # "select"
    /\ gor.up = "writeSend"

\* io.Copy of a copy direction has returned.
CopyEnded(position) == position \in {"closeDst", "closeSrc", "done"}

\* C23 (symmetric close propagation): when one copy direction of CopyLoop
\* has ended, on EOF or on an error, the other direction ends too and
\* CopyLoop returns; a Read on a closed endpoint returns, as DownRead and
\* UpRead have it.
C23_ClosePropagation ==
    (CopyEnded(gor.up) \/ CopyEnded(gor.down)) ~>
        (gor.up = "done" /\ gor.down = "done"
         /\ hd[TheSession] \notin {"CopyLoop", "wgWait"})

\* The relay has closed, which ended the copy from the relay; the copy from
\* the peer has ended on the pipe that OnClose closed; CopyLoop has returned.
C23_Witness ==
    /\ ws.relayClosed
    /\ chan.onClose = "done"
    /\ chan.peerLeft = 0
    /\ obs.last.err = "nil"
    /\ gor.up = "done"
    /\ gor.down = "done"
    /\ hd[TheSession] = "wsClose"

\* C20 (short-write isolation): a pipe write in OnMessage that takes fewer
\* bytes than the message, the pipe's reader closed under it, ends this
\* session only: the supervisor loop goes on, so that main, at getToken with
\* a token in the channel and a session left to start, can take it.
C20_ShortWriteIsolation ==
    (supPC = "getToken" /\ nextSid <= MaxSessions /\ tokens > 0) =>
        ENABLED SupGetToken

\* C7 (Write after data-channel loss): once OnClose has run, conn.dc is nil
\* and the pipe writer is closed; a Write called after that sends nothing and
\* returns (len(b), nil); and a Read of the session does not wait: it ends
\* the copy from the session (EOF, or the closed reader's error).
C7_WriteAfterDataChannelLoss ==
    /\ [](/\ chan.onClose = "done" =>
               /\ ~conn.dc
               /\ chan.pwClosed
               /\ chan.pipeBuf = 0
               /\ (gor.down = "read" /\ ~crashed) => ENABLED DownRead
          /\ obs.cur.afterOnClose => ~obs.cur.sent
          /\ obs.last.afterOnClose =>
               /\ ~obs.last.sent
               /\ obs.last.n = obs.last.len
               /\ obs.last.err = "nil")
    /\ [][(chan.onClose = "done" /\ gor.down = "read"
             /\ gor'.down # "read") => gor'.down = "closeDst"]_vars

\* A Write called after OnClose has returned, and the copy from the session
\* has ended on the Read that followed OnClose.
C7_Witness ==
    /\ obs.last.afterOnClose
    /\ obs.last.n = obs.last.len
    /\ obs.last.len > 0
    /\ ~chan.prClosed
    /\ gor.down = "closeDst"

\* C8 (backpressure gate): a Write that after its Send saw BufferedAmount at
\* or above maxBufferedAmount has taken one signal from sendMoreCh before it
\* returns, a Write that saw less has taken none, and the result is
\* (len(b), nil) either way.
C8_BackpressureGate ==
    /\ gor.up = "writeWait" => (obs.cur.high /\ ~obs.cur.waited)
    /\ gor.up = "writeReturn" => (obs.cur.high <=> obs.cur.waited)
    /\ obs.last.err # "none" =>
          /\ obs.last.high <=> obs.last.waited
          /\ obs.last.n = obs.last.len
          /\ obs.last.err = "nil"

\* A Write has returned its full length after it waited at the gate.
C8_Witness ==
    /\ obs.last.high
    /\ obs.last.waited
    /\ obs.last.n = obs.last.len
    /\ obs.last.len > 0

\* CopyLoop has been entered and has returned.
CopyLoopReturned ==
    /\ gor.up # "idle"
    /\ hd[TheSession] \in {"wsClose", "retToken", "connClose", "done"}

\* The Close() calls the copy tasks that have ended must have made.
CopyCloses ==
    (IF gor.up = "done" THEN 1 ELSE 0) + (IF gor.down = "done" THEN 1 ELSE 0)

\* C9 (copy bridge completion): CopyLoop has returned only when both copy
\* directions have; a direction that has returned has called Close on the
\* session and on the websocket; so both are closed when CopyLoop returns.
C9_CopyBridgeCompletion ==
    /\ CopyLoopReturned => (gor.up = "done" /\ gor.down = "done")
    /\ (gor.up = "done" \/ gor.down = "done") =>
          /\ ws.closed
          /\ connOnce[TheSession]
          /\ pcState[TheSession] = "closed"
    /\ obs.closeCalls >= CopyCloses

\* CopyLoop has just returned, and nothing but the copy tasks closed the
\* session.
C9_Witness ==
    /\ hd[TheSession] = "wsClose"
    /\ gor.wd = "cancelled"
    /\ obs.closeCalls = 2
    /\ ws.closed
    /\ connOnce[TheSession]

\* The step in which timeoutLoop takes its timer branch and closes.
WatchdogFires == gor.wd = "select" /\ gor'.wd = "closed"

\* The step in which timeoutLoop receives from c.activity.
ActivityReceived == conn'.activity = conn.activity - 1

\* C4 (watchdog), as the specification states it: the watchdog does not close
\* the session earlier than inactivityTimeout after the last Write, when that
\* Write was made before the deadline.
C4_DeadlineFromWrite ==
    [][WatchdogFires =>
         ~(obs.inTime /\ obs.writeAge < inactivityTimeout)]_vars

\* C4 (watchdog), as the program keeps it: timeoutLoop closes the session
\* only when a full inactivityTimeout has passed since it started or last
\* received an activity signal; each signal it receives sets the deadline to
\* exactly inactivityTimeout after the receipt; and once the timer has
\* expired the loop closes the session, unless it has ended or has received
\* a signal that was still queued.
C4_Watchdog ==
    /\ [][WatchdogFires =>
             (conn.timerLeft = 0 /\ obs.recvAge = inactivityTimeout)]_vars
    /\ [][ActivityReceived => conn'.timerLeft = inactivityTimeout]_vars
    /\ [](gor.wd = "select" =>
             conn.timerLeft + obs.recvAge = inactivityTimeout)
    /\ ((gor.wd = "select" /\ conn.timerLeft = 0) ~>
          (gor.wd # "select" \/ conn.timerLeft = inactivityTimeout
             \/ crashed))

\* The watchdog has closed the session a full inactivityTimeout after it
\* received the signal of a Write, which itself was made later than the
\* loop's start.
C4_Witness ==
    /\ gor.wd = "closed"
    /\ obs.last.err = "nil"
    /\ obs.inTime
    /\ conn.activity = 0
    /\ obs.recvAge = inactivityTimeout
    /\ obs.writeAge = inactivityTimeout

\* C5 (inactivity teardown liveness): once the watchdog has fired and closed
\* the session, then, short of a panic, the handler gets past CopyLoop and
\* past its retToken.
C5_TeardownLiveness ==
    (gor.wd = "closed") ~>
        (crashed \/ hd[TheSession] \in {"connClose", "done"})

\* C31 (no deadlock between writer and data-channel close): when the data
\* channel has closed while a Write waits on sendMoreCh with the session lock
\* held, OnClose still comes to run (it takes the lock, clears conn.dc and
\* closes the pipe writer), short of a panic: the lock is not held forever.
C31_NoWriterCloseDeadlock ==
    (gor.up = "writeWait" /\ conn.lock = "Write" /\ chan.onClose = "pending") ~>
        (crashed \/ (chan.onClose = "done" /\ ~conn.dc /\ chan.pwClosed))

====
